---- MODULE Spec2Model ----
(***************************************************************************)
(* Model of the login automation of Gemini-Vertex-Gateway:                 *)
(*   perform_login_automation (src/.vscode/getkeys/autoGetKeys/            *)
(*   auto_login.py): subprocess launch, parallel driver creation and URL   *)
(*   wait, the deterministic prefix, the multi-window poll loop, the final *)
(*   result check, the wait for the subprocess and cleanup_resources;      *)
(*   wait_and_check_stop (blocking mode) as a state machine of its own.    *)
(* Time is counted in seconds; the environment advances it by TickStep.    *)
(***************************************************************************)
EXTENDS Integers, Sequences, FiniteSets, TLC

\* ---------------------------------------------------------------- constants
TOTAL_TIMEOUT == 60
GCLOUD_AUTH_URL_TIMEOUT == 20
PASSWORD_INPUT_VISIBILITY_TIMEOUT == 15
URL_FAIL_DRIVER_TIMEOUT == 5
DRIVER_READY_TIMEOUT == 20
MAX_REFRESH == 2
ELEMENT_VISIBILITY_TIMEOUT == 20
ELEMENT_CLICKABLE_TIMEOUT == 10
NEW_HANDLE_TIMEOUT == 5
PROCESS_WAIT_TIMEOUT == 10
WEBDRIVER_COMMAND_TIMEOUT == 30

\* ------------------------------------------------------------------- bounds
\* seconds by which one Tick of the environment advances the clock
TickStep == 30
\* number of polls after which the blocking wait's clock is no longer advanced
MaxPolls == 4
\* largest number of keys one account's run collects
MaxKeys == 2
\* largest max_retries a robust_retry wrapper is built with
MaxRetries == 3
\* largest number of accounts (and of workers) given to start_processing
MaxAccounts == 2
\* largest max_retries try_step is called with (its default is 3)
MaxAttempts == 4
\* lines the subprocess writes to stderr
MaxLines == 3
\* seconds by which the clock of a driver command advances
CommandTick == 5
\* seconds after which a command on a connection whose timeout was not set is
\* no longer followed (the timeout of the browser binding then applies)
MaxCommandWait == 120
\* configurator threads started (the code starts PROJECT_CONFIG_CONCURRENCY = 4)
MaxConfigurators == 2
\* projects the creator thread creates before the quota is reached
MaxProjects == 2

Min(a, b) == IF a <= b THEN a ELSE b
Max(a, b) == IF a >= b THEN a ELSE b

Names == <<"main", "gen_lang", "universal">>
NameSet == {"main", "gen_lang", "universal"}
CODE == "4/0code"

VARIABLES
    pc,             \* position of perform_login_automation
    retval,         \* "none" | "True" | "False" | "VRE" (exception propagated)
    now,            \* time.time() in seconds since the deadline was computed
    waitStart,      \* time at which the current blocking wait started
    stop_event,     \* the shared cancellation signal
    blockedAfterStop, \* a Tick passed in the URL wait with stop_event set
    auth_url_event, \* set by the stderr reader when the URL line is read
    process,        \* the variable process: "None" | "proc"
    driver,         \* the variable driver: "None" | "drv"
    stderr_thread,  \* the variable stderr_thread: "None" | "thread"
    future,         \* driver_future: "none" | "running" | "done" | "failed"
    os,             \* OS processes: name -> "none" | "alive" | "dead"
    stderrAlive,    \* stderr_thread.is_alive()
    killIssued,     \* processes a kill was issued for
    cleanupCalls,   \* completed calls of cleanup_resources
    lateEffects,    \* what calls of cleanup_resources after the first did
    tasks,          \* name -> [status, result, refresh_count]
    active_tasks,   \* sequence of names
    windows,        \* names of the opened windows not yet closed or lost
    i,              \* index into active_tasks of the inner while
    trace,          \* the ordered record of the privileged events
    diag,           \* diagnostic of the poll phase's failure
    failed_tasks,   \* names listed by the 'not all succeeded' diagnostic
    w,              \* wait_and_check_stop (blocking mode) as its own machine
    acct,           \* process_account: position, result and what its log holds
    retry,          \* one call of a robust_retry wrapper as its own machine
    sp,             \* one call of start_processing as its own machine
    ts,             \* one call of try_step as its own machine
    rd,             \* the stderr reader thread and the readers of what it stores
    hp,             \* one call of handle_new_projects as its own machine
    cmd             \* the session's command timeout and one driver command

vars == <<pc, retval, now, waitStart, stop_event, blockedAfterStop,
          auth_url_event, process, driver, stderr_thread, future, os,
          stderrAlive, killIssued, cleanupCalls, lateEffects, tasks,
          active_tasks, windows, i, trace, diag, failed_tasks, w, acct, retry, sp, ts, rd, hp, cmd>>

resVars == <<process, driver, os, stderrAlive, killIssued, cleanupCalls,
             lateEffects>>
pollVars == <<tasks, active_tasks, windows, i, diag, failed_tasks>>

deadline == TOTAL_TIMEOUT

OsNames == {"browser", "service", "gcloud"}

InitTasks ==
    [n \in NameSet |->
        [status |-> IF n = "main" THEN "wait_continue" ELSE "wait_accept",
         result |-> IF n = "main" THEN "None" ELSE "False",
         refresh_count |-> 0]]

WaitIdle == [pc |-> "idle", now |-> 0, end_time |-> 0, stop |-> FALSE, stopAt |-> 0,
             pollsAfterStop |-> 0, late |-> FALSE, outcome |-> "none"]

\* result = {"account": ..., "keys": set(), "status": STATUS_FAILURE, "reason": ""};
\* has_errors: the log holds a line tagged with the error mark, [ERROR] or [CRITICAL]
AcctStart == [pc |-> "login", status |-> "failure", reason |-> "", keys |-> 0,
              has_errors |-> FALSE]

RetryIdle == [pc |-> "idle", max_retries |-> 0, attempt |-> 0, current_delay |-> 0,
              calls |-> 0, delays |-> 0, stop |-> FALSE, last |-> "none",
              outcome |-> "none", by |-> "none", success_on_existing |-> FALSE]

\* start_processing: position, the accounts not yet looked at by the submit
\* loop, the state of each account's future, what the result queue received
StartIdle == [pc |-> "idle", max_workers |-> 0, next |-> 0, stop |-> FALSE,
              dispatched |-> FALSE, futures |-> <<>>, processing |-> <<>>,
              terminal |-> <<>>, pending |-> {}]

\* try_step: the loop's locals and what was observed of the call
StepIdle == [pc |-> "idle", max_retries |-> 0, attempt |-> 0, calls |-> 0,
             fails |-> 0, backs |-> 0, stop |-> FALSE, stopAtTop |-> FALSE,
             matched |-> FALSE, outcome |-> "none"]

\* capture_gcloud_stderr: position, the lines not yet read from the pipe, the
\* line in hand, the three objects it shares with its caller (stderr_lines,
\* url_container['url'] with <<>> for a missing key, url_event), how often it
\* wrote each of the two, what the caller read after seeing the event, and the
\* diagnostic built from the retained lines
RdIdle == [pc |-> "idle", pipe |-> <<>>, cur |-> <<>>, stderr_lines |-> <<>>,
           url |-> <<>>, url_event |-> FALSE, stores |-> 0, sets |-> 0,
           written |-> <<>>, auth_url |-> <<"unread">>, filtered |-> FALSE, error_lines |-> <<>>,
           error_details |-> <<>>]

\* handle_new_projects: position of the calling thread, the creator thread, the
\* queue (items and unfinished_tasks), the configurator threads, the two stop
\* signals, the keys collected
HpIdle == [pc |-> "idle", creator |-> "none", created |-> 0, projects_to_create |-> 0,
           queue |-> <<>>, unfinished |-> 0, workers |-> <<>>,
           account_stop |-> FALSE, global_stop |-> FALSE, keys |-> 0,
           desired_keys |-> 0]

\* the session after _create_driver returned: position, the clock, whether the
\* driver has command_executor._conn, that connection's timeout, and the time
\* at which the command in flight was sent, whether a command was ended by
\* the timeout
CmdIdle == [pc |-> "idle", now |-> 0, has_conn |-> FALSE, timeout |-> 0, sent_at |-> 0,
            expired |-> FALSE]

Init ==
    /\ pc = "init"
    /\ retval = "none"
    /\ now = 0
    /\ waitStart = 0
    /\ stop_event = FALSE
    /\ blockedAfterStop = FALSE
    /\ auth_url_event = FALSE
    /\ process = "None"
    /\ driver = "None"
    /\ stderr_thread = "None"
    /\ future = "none"
    /\ os = [p \in OsNames |-> "none"]
    /\ stderrAlive = FALSE
    /\ killIssued = {}
    /\ cleanupCalls = 0
    /\ lateEffects = {}
    /\ tasks = InitTasks
    /\ active_tasks = <<>>
    /\ i = 0
    /\ trace = <<>>
    /\ diag = "none"
    /\ failed_tasks = {}
    /\ w = WaitIdle
    /\ acct = AcctStart
    /\ retry = RetryIdle
    /\ sp = StartIdle
    /\ ts = StepIdle
    /\ windows = {}
    /\ rd = RdIdle
    /\ hp = HpIdle
    /\ cmd = CmdIdle

\* ------------------------------------------------------- cleanup_resources
\* What one call does, given the value of the variable driver at the call and
\* whether the kill of the subprocess's group succeeds (the code catches
\* PermissionError / OSError from it).
CleanupEffects(drv) ==
    (IF drv # "None" THEN {"kill_browser", "kill_service", "set_driver"} ELSE {})
    \cup (IF process # "None" /\ os["gcloud"] = "alive"
          THEN {"kill_gcloud", "set_process"} ELSE {})
    \cup (IF stderr_thread # "None" /\ stderrAlive THEN {"join"} ELSE {})

cleanup_resources_KeepsDriver(drv, killOk) ==
    LET eff == CleanupEffects(drv)
        gcloudAfter == IF "kill_gcloud" \in eff /\ killOk THEN "dead" ELSE os["gcloud"]
    IN /\ driver' = drv
       /\ os' = [p \in OsNames |->
                   IF p = "gcloud" THEN gcloudAfter
                   ELSE IF drv # "None" /\ os[p] = "alive" THEN "dead" ELSE os[p]]
       /\ killIssued' = killIssued
              \cup (IF "kill_browser" \in eff THEN {"browser", "service"} ELSE {})
              \cup (IF "kill_gcloud" \in eff THEN {"gcloud"} ELSE {})
       /\ process' = IF "set_process" \in eff THEN "None" ELSE process
       /\ stderrAlive' = IF "join" \in eff THEN gcloudAfter = "alive" ELSE stderrAlive
       /\ cleanupCalls' = cleanupCalls + 1
       /\ lateEffects' = IF cleanupCalls >= 1 THEN lateEffects \cup eff ELSE lateEffects
       /\ trace' = Append(trace, "cleanup")

cleanup_resources(drv, killOk) ==
    LET eff == CleanupEffects(drv)
        gcloudAfter == IF "kill_gcloud" \in eff /\ killOk THEN "dead" ELSE os["gcloud"]
    IN \* 1. kill the browser and the driver service, driver = None
       /\ driver' = "None"
       /\ os' = [p \in OsNames |->
                   IF p = "gcloud" THEN gcloudAfter
                   ELSE IF drv # "None" /\ os[p] = "alive" THEN "dead" ELSE os[p]]
       /\ killIssued' = killIssued
              \cup (IF "kill_browser" \in eff THEN {"browser", "service"} ELSE {})
              \cup (IF "kill_gcloud" \in eff THEN {"gcloud"} ELSE {})
       \* 2. kill the subprocess's group if it still runs; process = None (finally)
       /\ process' = IF "set_process" \in eff THEN "None" ELSE process
       \* 3. join(timeout) the stderr reader if alive: it ends once the pipe closes
       /\ stderrAlive' = IF "join" \in eff THEN gcloudAfter = "alive" ELSE stderrAlive
       /\ cleanupCalls' = cleanupCalls + 1
       /\ lateEffects' = IF cleanupCalls >= 1 THEN lateEffects \cup eff ELSE lateEffects
       /\ trace' = Append(trace, "cleanup")

\* ------------------------------------------------------------ environment
\* min(GCLOUD_AUTH_URL_TIMEOUT, max(0.1, deadline - time.time())), in whole seconds
auth_wait_timeout == Min(GCLOUD_AUTH_URL_TIMEOUT, Max(1, deadline - waitStart))

\* the positions at which perform_login_automation is in a blocking wait: the URL
\* wait, the two waits for the driver future, the first blocking
\* wait_and_check_stop of each prefix step, the wait for a new window handle,
\* the wait for the subprocess
WaitPcs == {"url_wait", "url_fail", "driver_wait", "prefix", "page_check",
            "password", "open_windows", "proc_wait"}

\* the timeout the code passes to the wait at pc
WaitTimeout ==
    CASE pc = "url_wait" -> auth_wait_timeout
      [] pc = "url_fail" -> URL_FAIL_DRIVER_TIMEOUT
      [] pc = "driver_wait" -> DRIVER_READY_TIMEOUT
      [] pc = "prefix" -> ELEMENT_VISIBILITY_TIMEOUT
      [] pc = "page_check" -> PASSWORD_INPUT_VISIBILITY_TIMEOUT
      [] pc = "password" -> ELEMENT_CLICKABLE_TIMEOUT
      [] pc = "open_windows" -> NEW_HANDLE_TIMEOUT
      [] pc = "proc_wait" -> PROCESS_WAIT_TIMEOUT
      [] OTHER -> 0

\* a blocking wait is in progress and its timeout has not elapsed
WaitPending == pc \in WaitPcs /\ now < waitStart + WaitTimeout

\* auth_url_event.wait(timeout) is blocked, its timeout has not elapsed, and the
\* cancellation signal is set
UrlWaitBlockedWithStop ==
    /\ pc = "url_wait"
    /\ ~auth_url_event
    /\ now < waitStart + auth_wait_timeout
    /\ stop_event

\* the outer orchestrator sets the cancellation signal
SetStop ==
    /\ pc \notin {"init", "returned"}
    /\ acct.pc # "done"
    /\ ~stop_event
    /\ stop_event' = TRUE
    /\ UNCHANGED <<pc, retval, now, waitStart, blockedAfterStop, auth_url_event,
                   stderr_thread, future, trace, w, acct, retry, sp, ts, rd, hp, cmd>>
    /\ UNCHANGED resVars
    /\ UNCHANGED pollVars

\* capture_gcloud_stderr reads the authorization URL line
StderrEmitUrl ==
    /\ stderrAlive
    /\ os["gcloud"] = "alive"
    /\ ~auth_url_event
    /\ pc = "url_wait"
    /\ now < waitStart + auth_wait_timeout
    /\ auth_url_event' = TRUE
    /\ UNCHANGED <<pc, retval, now, waitStart, stop_event, blockedAfterStop,
                   stderr_thread, future, trace, w, acct, retry, sp, ts, rd, hp, cmd>>
    /\ UNCHANGED resVars
    /\ UNCHANGED pollVars

\* the subprocess exits by itself; the reader reaches end of file
ProcExit ==
    /\ os["gcloud"] = "alive"
    /\ pc \notin {"init", "returned"}
    /\ os' = [os EXCEPT !["gcloud"] = "dead"]
    /\ stderrAlive' = FALSE
    /\ UNCHANGED <<pc, retval, now, waitStart, stop_event, blockedAfterStop,
                   auth_url_event, process, driver, stderr_thread, future,
                   killIssued, cleanupCalls, lateEffects, trace, w, acct, retry, sp, ts, rd, hp, cmd>>
    /\ UNCHANGED pollVars

\* _create_driver in the pool thread: uc.Chrome starts the browser and service
CreateDriverOk ==
    /\ future = "running"
    /\ future' = "done"
    /\ os' = [os EXCEPT !["browser"] = "alive", !["service"] = "alive"]
    /\ UNCHANGED <<pc, retval, now, waitStart, stop_event, blockedAfterStop,
                   auth_url_event, process, driver, stderr_thread, stderrAlive,
                   killIssued, cleanupCalls, lateEffects, trace, w, acct, retry, sp, ts, rd, hp, cmd>>
    /\ UNCHANGED pollVars

CreateDriverFail ==
    /\ future = "running"
    /\ future' = "failed"
    /\ UNCHANGED <<pc, retval, now, waitStart, stop_event, blockedAfterStop,
                   auth_url_event, stderr_thread, trace, w, acct, retry, sp, ts, rd, hp, cmd>>
    /\ UNCHANGED resVars
    /\ UNCHANGED pollVars

\* ------------------------------------------------- launch and parallel setup
\* Leaving through the except clause of perform_login_automation (or a plain
\* return False): the result and the diagnostic, then the finally clause.
Fail(d) ==
    /\ pc' = "finally"
    /\ retval' = IF d \in {"verification", "verification_timeout"} THEN "VRE"
                 ELSE "False"
    /\ diag' = d

\* Popen, stderr thread start, executor.submit(_create_driver), start of the
\* URL wait with auth_wait_timeout
Launch ==
    /\ pc = "init"
    /\ \E ok \in BOOLEAN :
          IF ok
          THEN /\ pc' = "url_wait"
               /\ process' = "proc"
               /\ os' = [os EXCEPT !["gcloud"] = "alive"]
               /\ stderr_thread' = "thread"
               /\ stderrAlive' = TRUE
               /\ future' = "running"
               /\ UNCHANGED <<retval, diag>>
          ELSE \* Popen raises: except clause, return False
               /\ Fail("error")
               /\ UNCHANGED <<process, os, stderr_thread, stderrAlive, future>>
    /\ waitStart' = now
    /\ UNCHANGED <<now, stop_event, blockedAfterStop, auth_url_event, driver,
                   killIssued, cleanupCalls, lateEffects, trace, w, acct, retry, sp, ts, rd, hp, cmd, tasks,
                   active_tasks, windows, i, failed_tasks>>

\* auth_url_event.wait(timeout) returns True
UrlWaitOk ==
    /\ pc = "url_wait"
    /\ auth_url_event
    /\ pc' = "driver_wait"
    /\ waitStart' = now
    /\ UNCHANGED <<retval, now, stop_event, blockedAfterStop, auth_url_event,
                   stderr_thread, future, trace, w, acct, retry, sp, ts, rd, hp, cmd>>
    /\ UNCHANGED resVars
    /\ UNCHANGED pollVars

\* auth_url_event.wait(timeout) returns False: only when the timeout elapsed
UrlWaitTimeout ==
    /\ pc = "url_wait"
    /\ ~auth_url_event
    /\ now >= waitStart + auth_wait_timeout
    /\ pc' = "url_fail"
    /\ waitStart' = now
    /\ UNCHANGED <<retval, now, stop_event, blockedAfterStop, auth_url_event,
                   stderr_thread, future, trace, w, acct, retry, sp, ts, rd, hp, cmd>>
    /\ UNCHANGED resVars
    /\ UNCHANGED pollVars

\* the value driver_future.result(timeout) yields, "wait" while it still blocks
FutureResult(timeout) ==
    IF future = "done" THEN "drv"
    ELSE IF future = "failed" THEN "None"
    ELSE IF now >= waitStart + timeout THEN "None"
    ELSE "wait"

\* the wait at pc returns now: what it waits for has happened or its timeout
\* has elapsed (the composite page check's element may still appear later)
WaitOver ==
    CASE pc = "url_wait" -> auth_url_event \/ now >= waitStart + auth_wait_timeout
      [] pc = "url_fail" -> FutureResult(URL_FAIL_DRIVER_TIMEOUT) # "wait"
      [] pc = "driver_wait" -> FutureResult(DRIVER_READY_TIMEOUT) # "wait"
      [] pc = "page_check" -> now >= waitStart + PASSWORD_INPUT_VISIBILITY_TIMEOUT
      [] pc = "proc_wait" -> os["gcloud"] = "dead" \/ now >= waitStart + PROCESS_WAIT_TIMEOUT
      [] OTHER -> FALSE

\* time passes, but not while a wait that can return is still to return; past
\* the deadline the clock is followed only while a blocking wait is pending,
\* nothing else reads it then
Tick ==
    /\ pc \notin {"init", "returned", "account"}
    /\ ~WaitOver
    /\ now < deadline \/ WaitPending
    /\ now' = now + TickStep
    /\ blockedAfterStop' = (blockedAfterStop \/ UrlWaitBlockedWithStop)
    /\ UNCHANGED <<pc, retval, waitStart, stop_event, auth_url_event, stderr_thread,
                   future, trace, w, acct, retry, sp, ts, rd, hp, cmd>>
    /\ UNCHANGED resVars
    /\ UNCHANGED pollVars

\* URL-timeout path: driver = driver_future.result(timeout=5) or None;
\* cleanup_resources(); return False
UrlFailCleanup ==
    /\ pc = "url_fail"
    /\ FutureResult(URL_FAIL_DRIVER_TIMEOUT) # "wait"
    /\ \E killOk \in BOOLEAN :
          cleanup_resources(FutureResult(URL_FAIL_DRIVER_TIMEOUT), killOk)
    /\ retval' = "False"
    /\ pc' = "with_exit"
    /\ UNCHANGED <<now, waitStart, stop_event, blockedAfterStop, auth_url_event,
                   stderr_thread, future, w, acct, retry, sp, ts, rd, hp, cmd>>
    /\ diag' = "url_timeout"
    /\ UNCHANGED <<tasks, active_tasks, windows, i, failed_tasks>>

\* driver = driver_future.result(timeout=20) returns the driver
DriverReady ==
    /\ pc = "driver_wait"
    /\ FutureResult(DRIVER_READY_TIMEOUT) = "drv"
    /\ driver' = "drv"
    /\ pc' = "prefix"
    /\ waitStart' = now
    /\ UNCHANGED <<retval, now, stop_event, blockedAfterStop,
                   auth_url_event, process, stderr_thread, future, os, stderrAlive,
                   killIssued, cleanupCalls, lateEffects, trace, w, acct, retry, sp, ts, rd, hp, cmd>>
    /\ UNCHANGED pollVars

\* driver_future.result(timeout=20) raises (creation failed or timed out):
\* except Exception: cleanup_resources(); return False
DriverFailCleanup ==
    /\ pc = "driver_wait"
    /\ FutureResult(DRIVER_READY_TIMEOUT) = "None"
    /\ \E killOk \in BOOLEAN : cleanup_resources(driver, killOk)
    /\ retval' = "False"
    /\ pc' = "with_exit"
    /\ UNCHANGED <<now, waitStart, stop_event, blockedAfterStop, auth_url_event,
                   stderr_thread, future, w, acct, retry, sp, ts, rd, hp, cmd>>
    /\ diag' = "driver_failed"
    /\ UNCHANGED <<tasks, active_tasks, windows, i, failed_tasks>>

\* leaving the with block: ThreadPoolExecutor.shutdown(wait=True)
ExecutorShutdown ==
    /\ pc = "with_exit"
    /\ future # "running"
    /\ pc' = "finally"
    /\ UNCHANGED <<retval, now, waitStart, stop_event, blockedAfterStop,
                   auth_url_event, stderr_thread, future, trace, w, acct, retry, sp, ts, rd, hp, cmd>>
    /\ UNCHANGED resVars
    /\ UNCHANGED pollVars

\* finally: cleanup_resources(); control returns to the caller
Finally ==
    /\ pc = "finally"
    /\ \E killOk \in BOOLEAN : cleanup_resources(driver, killOk)
    /\ pc' = "returned"
    \* the windows go with the killed browser
    /\ windows' = IF driver # "None" THEN {} ELSE windows
    /\ UNCHANGED <<retval, now, waitStart, stop_event, blockedAfterStop,
                   auth_url_event, stderr_thread, future, w, acct, retry, sp, ts, rd, hp, cmd>>
    /\ UNCHANGED <<tasks, active_tasks, i, diag, failed_tasks>>


\* ------------------------------------------------------ deterministic prefix
\* driver.get; wait for the e-mail field (ELEMENT_VISIBILITY_TIMEOUT);
\* try_step(email_step_action)
PrefixEmail ==
    /\ pc = "prefix"
    /\ \E out \in {"ok", "step_failed", "timeout", "interrupted", "error"} :
          /\ out = "interrupted" => stop_event
          /\ out = "ok" => ~stop_event
          /\ out = "timeout" => now > waitStart
          /\ IF out = "ok"
             THEN pc' = "page_check" /\ UNCHANGED <<retval, diag>>
             ELSE Fail(out)
    /\ waitStart' = now
    /\ UNCHANGED <<now, stop_event, blockedAfterStop, auth_url_event, stderr_thread,
                   future, trace, w, acct, retry, sp, ts, rd, hp, cmd, tasks, active_tasks, windows, i, failed_tasks>>
    /\ UNCHANGED resVars

\* composite page check: which of password field / robot marker / 2-Step marker
\* becomes visible within PASSWORD_INPUT_VISIBILITY_TIMEOUT
PageCheck ==
    /\ pc = "page_check"
    /\ \E out \in {"password", "marker", "attr_timeout", "timeout", "interrupted", "error"} :
          /\ out = "interrupted" => stop_event
          /\ out \in {"password", "marker"} => ~stop_event
          /\ out = "timeout" => now >= waitStart + PASSWORD_INPUT_VISIBILITY_TIMEOUT
          /\ CASE out = "password" -> pc' = "password" /\ UNCHANGED <<retval, diag>>
               \* an element that is not the password field: line 354
               [] out = "marker" -> Fail("verification")
               \* element.get_attribute raises selenium's TimeoutException: line 359
               [] out = "attr_timeout" -> Fail("verification_timeout")
               \* wait_and_check_stop raises the builtin TimeoutError, which the
               \* except TimeoutException clause of line 356 does not catch
               [] out = "timeout" -> Fail("page_timeout")
               [] OTHER -> Fail(out)
    /\ waitStart' = now
    /\ UNCHANGED <<now, stop_event, blockedAfterStop, auth_url_event, stderr_thread,
                   future, trace, w, acct, retry, sp, ts, rd, hp, cmd, tasks, active_tasks, windows, i, failed_tasks>>
    /\ UNCHANGED resVars

\* password_input.send_keys; password_step_action()
PasswordStep ==
    /\ pc = "password"
    /\ \E out \in {"ok", "timeout", "interrupted", "error"} :
          /\ out = "interrupted" => stop_event
          /\ out = "ok" => ~stop_event
          /\ out = "timeout" => now > waitStart
          /\ IF out = "ok"
             THEN pc' = "open_windows" /\ UNCHANGED <<retval, diag>>
             ELSE Fail(out)
    /\ waitStart' = now
    /\ UNCHANGED <<now, stop_event, blockedAfterStop, auth_url_event, stderr_thread,
                   future, trace, w, acct, retry, sp, ts, rd, hp, cmd, tasks, active_tasks, windows, i, failed_tasks>>
    /\ UNCHANGED resVars

\* ----------------------------------------------------------------- poll loop
\* open_and_get_handle twice, switch back, tasks and active_tasks initialised
OpenWindows ==
    /\ pc = "open_windows"
    /\ \E ok \in BOOLEAN :
          IF ok
          THEN /\ pc' = "loop_head"
               /\ tasks' = InitTasks
               /\ active_tasks' = Names
               /\ windows' = NameSet
               /\ UNCHANGED <<retval, diag>>
          ELSE /\ Fail("poll_exception")
               /\ UNCHANGED <<tasks, active_tasks, windows>>
    /\ UNCHANGED <<now, waitStart, stop_event, blockedAfterStop, auth_url_event,
                   stderr_thread, future, trace, w, acct, retry, sp, ts, rd, hp, cmd, i, failed_tasks>>
    /\ UNCHANGED resVars

\* while time.time() < deadline: if not active_tasks: break; i = 0
LoopHead ==
    /\ pc = "loop_head"
    /\ IF now < deadline /\ active_tasks # <<>>
       THEN pc' = "visit" /\ i' = 1
       ELSE pc' = "final_check" /\ i' = i
    /\ UNCHANGED <<retval, now, waitStart, stop_event, blockedAfterStop,
                   auth_url_event, stderr_thread, future, trace, w, acct, retry, sp, ts, rd, hp, cmd, tasks,
                   active_tasks, windows, diag, failed_tasks>>
    /\ UNCHANGED resVars

\* the statements of the wait_code branch once the code element is found, in
\* the order of the source
CodeBranchStmts_CloseFirst == <<"close_main", "read_code", "write_code", "mark_done">>

CodeBranchStmts_NoWrite == <<"read_code", "close_main", "mark_done">>

CodeBranchStmts == <<"read_code", "write_code", "close_main", "mark_done">>

\* the trace events of the first k statements of the branch
CodeBranchEvents(k) ==
    SelectSeq(SubSeq(CodeBranchStmts, 1, k), LAMBDA s : s # "mark_done")

Executed(k, s) == \E j \in 1..k : CodeBranchStmts[j] = s

Body(status, result, ev, raised) ==
    [status |-> status, result |-> result, ev |-> ev, raised |-> raised]

\* wait_code with the code element visible: every statement runs, or a
\* statement raises and the ones before it have run. The write raises
\* (BrokenPipeError) when the subprocess is gone; driver.close() raises what a
\* driver command can raise.
CodeBranch(t) ==
    LET n == Len(CodeBranchStmts)
        after(k, raised) ==
            Body(IF Executed(k, "mark_done") THEN "done" ELSE t.status,
                 IF Executed(k, "read_code") THEN CODE ELSE t.result,
                 CodeBranchEvents(k), raised)
        stops(k) ==
            IF k = n THEN {"none"}
            ELSE IF CodeBranchStmts[k + 1] = "write_code"
                 THEN (IF os["gcloud"] = "alive" THEN {} ELSE {"other"})
            ELSE IF CodeBranchStmts[k + 1] = "close_main"
                 THEN {"timeout", "nowindow", "other"}
            ELSE {}
        reach(k) == \A j \in 1..k :
                       CodeBranchStmts[j] = "write_code" => os["gcloud"] = "alive"
    IN UNION { { after(k, r) : r \in stops(k) } : k \in {kk \in 0..n : reach(kk)} }

\* the unknown branch: EC.any_of(allow_condition, continue_condition,
\* account_condition) yields the element of the first condition, in argument
\* order, whose marker is visible; the branch then goes by the element's text
ProbeOrder_ContinueFirst == <<"continue", "allow", "chooser">>

ProbeOrder == <<"allow", "continue", "chooser">>

ProbeMarkers == {"allow", "continue", "chooser"}

\* found_element.text of the element located for marker m
MarkerText(m) ==
    CASE m = "allow" -> "Allow"
      [] m = "continue" -> "Continue"
      [] OTHER -> "account_email"

\* the marker whose element any_of returns, "none" when it returns False
AnyOf(vis) ==
    IF \E k \in DOMAIN ProbeOrder : ProbeOrder[k] \in vis
    THEN ProbeOrder[CHOOSE k \in DOMAIN ProbeOrder :
                       /\ ProbeOrder[k] \in vis
                       /\ \A j \in 1..(k - 1) : ProbeOrder[j] \notin vis]
    ELSE "none"

\* the status the record is left in and whether found_element.click() ran
CompositeProbe(vis) ==
    LET found == AnyOf(vis)
        element_text == MarkerText(found)
    IN IF found = "none" THEN [status |-> "unknown", click |-> FALSE]
       ELSE IF element_text = "Allow" THEN [status |-> "wait_allow", click |-> FALSE]
       ELSE IF element_text = "Continue" THEN [status |-> "wait_continue", click |-> FALSE]
       ELSE IF element_text = "account_email"
            THEN [status |-> "wait_continue", click |-> TRUE]
       ELSE [status |-> "unknown", click |-> FALSE]

MainBody_UnknownToCode(t) ==
    LET same(r) == Body(t.status, t.result, <<>>, r)
        go(s) == Body(s, t.result, <<>>, "none")
    IN {go("unknown")}
       \cup (IF stop_event THEN {same("interrupted")}
             ELSE CASE t.status = "wait_continue" -> {same("none"), go("wait_allow")}
                    [] t.status = "wait_allow" -> {same("none"), go("wait_code")}
                    [] t.status = "wait_code" -> {same("none")} \cup CodeBranch(t)
                    [] OTHER -> {same("none"), go("wait_allow"), go("wait_code")})

\* the body of one visit of the main-flow record, before the except clauses.
\* On an expected host the probe of the current state either finds nothing and
\* the status is left as it is (same("none")), or finds its element, which is
\* clicked or read, and the status advances (go); with the signal set the probe
\* raises InterruptedError.
MainBody(t) ==
    LET same(r) == Body(t.status, t.result, <<>>, r)
        go(s) == Body(s, t.result, <<>>, "none")
    IN {go("unknown")}                               \* off the expected hosts
       \cup (IF stop_event THEN {same("interrupted")}
             ELSE CASE t.status = "wait_continue" -> {same("none"), go("wait_allow")}
                    [] t.status = "wait_allow" -> {same("none"), go("wait_code")}
                    [] t.status = "wait_code" -> {same("none")} \cup CodeBranch(t)
                    [] OTHER -> { go(CompositeProbe(vis).status) : vis \in SUBSET ProbeMarkers })

AuxBody_NoClose(t) ==
    LET same(r) == Body(t.status, t.result, <<>>, r)
        accepted == { Body("done", "True", <<>>, "none") }
    IN IF stop_event THEN {same("interrupted")}
       ELSE IF t.status = "wait_accept"
            THEN {same("none"), Body("wait_accept_confirmation", t.result, <<>>, "none")}
                 \cup accepted
            ELSE {same("none")} \cup accepted

\* the body of one visit of a consent record: the probe finds nothing
\* (same("none")), finds the Accept button, which is clicked, or finds an
\* 'accepted' text (accepted)
AuxBody(t) ==
    LET same(r) == Body(t.status, t.result, <<>>, r)
        \* status = "done"; result = True; driver.close(), which may raise
        accepted == { Body("done", "True", <<"close_aux">>, "none") }
                    \cup { Body("done", "True", <<>>, r) :
                             r \in {"timeout", "nowindow", "other"} }
    IN IF stop_event THEN {same("interrupted")}
       ELSE IF t.status = "wait_accept"
            THEN {same("none"), Body("wait_accept_confirmation", t.result, <<>>, "none")}
                 \cup accepted
            ELSE {same("none")} \cup accepted

VisitBody(n, t) ==
    { Body(t.status, t.result, <<>>, r) : r \in {"timeout", "nowindow", "other"} }
    \cup (IF n = "main" THEN MainBody(t) ELSE AuxBody(t))

Rec(status, result, rc) == [status |-> status, result |-> result, refresh_count |-> rc]

\* except (TimeoutError, TimeoutException): refresh while the budget lasts
TimeoutHandler_OffByOne(b, rc) ==
    IF rc <= MAX_REFRESH
    THEN IF now < deadline
         THEN { [task |-> Rec(b.status, b.result, rc + 1), escape |-> FALSE, lost |-> FALSE],
                [task |-> Rec("done", b.result, rc), escape |-> FALSE, lost |-> TRUE],
                [task |-> Rec(b.status, b.result, rc), escape |-> TRUE, lost |-> FALSE] }
         ELSE { [task |-> Rec("done", "False", rc), escape |-> FALSE, lost |-> FALSE] }
    ELSE { [task |-> Rec("done", "False", rc), escape |-> FALSE, lost |-> FALSE] }

TimeoutHandler_NoDeadlineCheck(b, rc) ==
    IF rc < MAX_REFRESH
    THEN { [task |-> Rec(b.status, b.result, rc + 1), escape |-> FALSE, lost |-> FALSE],
           [task |-> Rec("done", b.result, rc), escape |-> FALSE, lost |-> TRUE],
           [task |-> Rec(b.status, b.result, rc), escape |-> TRUE, lost |-> FALSE] }
    ELSE { [task |-> Rec("done", "False", rc), escape |-> FALSE, lost |-> FALSE] }

TimeoutHandler_ResetsStatus(b, rc) ==
    IF rc < MAX_REFRESH
    THEN IF now < deadline
         THEN { [task |-> Rec("unknown", b.result, rc + 1), escape |-> FALSE, lost |-> FALSE],
                [task |-> Rec("done", b.result, rc), escape |-> FALSE, lost |-> TRUE],
                [task |-> Rec(b.status, b.result, rc), escape |-> TRUE, lost |-> FALSE] }
         ELSE { [task |-> Rec("done", "False", rc), escape |-> FALSE, lost |-> FALSE] }
    ELSE { [task |-> Rec("done", "False", rc), escape |-> FALSE, lost |-> FALSE] }

TimeoutHandler(b, rc) ==
    IF rc < MAX_REFRESH
    THEN IF now < deadline
         THEN { \* switch_to.window, refresh, refresh_count += 1
                [task |-> Rec(b.status, b.result, rc + 1), escape |-> FALSE, lost |-> FALSE],
                \* the window is gone: NoSuchWindowException, outer except
                [task |-> Rec("done", b.result, rc), escape |-> FALSE, lost |-> TRUE],
                \* the refresh itself times out or fails: leaves the loop
                [task |-> Rec(b.status, b.result, rc), escape |-> TRUE, lost |-> FALSE] }
         ELSE { [task |-> Rec("done", "False", rc), escape |-> FALSE, lost |-> FALSE] }
    ELSE { [task |-> Rec("done", "False", rc), escape |-> FALSE, lost |-> FALSE] }

\* except NoSuchWindowException: task["status"] = "done"
WindowLostHandler_KeepsStatus(b, rc) ==
    { [task |-> Rec(b.status, b.result, rc), escape |-> FALSE, lost |-> TRUE] }

WindowLostHandler(b, rc) ==
    { [task |-> Rec("done", b.result, rc), escape |-> FALSE, lost |-> TRUE] }

\* one visit: the body, then the except clauses
VisitOutcomes(n, t) ==
    UNION { LET hs == CASE b.raised = "none" ->
                            { [task |-> Rec(b.status, b.result, t.refresh_count),
                               escape |-> FALSE, lost |-> FALSE] }
                        [] b.raised = "timeout" -> TimeoutHandler(b, t.refresh_count)
                        [] b.raised = "nowindow" ->
                            WindowLostHandler(b, t.refresh_count)
                        [] OTHER ->
                            { [task |-> Rec(b.status, b.result, t.refresh_count),
                               escape |-> TRUE, lost |-> FALSE] }
            IN { [task |-> h.task, escape |-> h.escape, ev |-> b.ev,
                  raised |-> b.raised, lost |-> h.lost] : h \in hs }
          : b \in VisitBody(n, t) }

RemoveAt_Head(s, k) == Tail(s)

RemoveAt_Last(s, k) == SubSeq(s, 1, Len(s) - 1)

\* active_tasks.pop(i)
RemoveAt(s, k) == SubSeq(s, 1, k - 1) \o SubSeq(s, k + 1, Len(s))

\* if task["status"] == "done": active_tasks.pop(i)  else: i += 1
NextIndex_AlwaysAdvance(done, k) == k + 1

NextIndex(done, k) == IF done THEN k ELSE k + 1

\* the calls of wait_and_check_stop(condition, 0, non_blocking=True) that one
\* visit of record n in the given status makes, on or off the expected hosts
ProbesInVisit(n, status, onHost) ==
    IF n = "main"
    THEN IF ~onHost THEN 0
         ELSE IF status \in {"wait_continue", "wait_allow", "wait_code", "unknown"}
              THEN 1 ELSE 0
    ELSE IF status \in {"wait_accept", "wait_accept_confirmation"} THEN 1 ELSE 0

Visit ==
    /\ pc = "visit"
    /\ i <= Len(active_tasks)
    /\ LET n == active_tasks[i] IN
       \E o \in VisitOutcomes(n, tasks[n]) :
          /\ tasks' = [tasks EXCEPT ![n] = o.task]
          /\ trace' = trace \o SelectSeq(o.ev, LAMBDA e : e # "close_aux") \o
                 (IF n = "main" /\ o.task.status = "done" THEN <<"done_main">> ELSE <<>>)
          \* driver.close() has closed the window, or the window was found gone
          /\ windows' = IF o.lost \/ \E k \in DOMAIN o.ev :
                                       o.ev[k] \in {"close_main", "close_aux"}
                         THEN windows \ {n} ELSE windows
          /\ IF o.escape
             THEN Fail("poll_exception") /\ UNCHANGED <<active_tasks, i>>
             ELSE /\ UNCHANGED <<pc, retval, diag>>
                  /\ active_tasks' = IF o.task.status = "done"
                                     THEN RemoveAt(active_tasks, i) ELSE active_tasks
                  /\ i' = NextIndex(o.task.status = "done", i)
    /\ UNCHANGED <<now, waitStart, stop_event, blockedAfterStop, auth_url_event,
                   stderr_thread, future, w, acct, retry, sp, ts, rd, hp, cmd, failed_tasks>>
    /\ UNCHANGED resVars

\* end of a pass: time.sleep(0.2), back to the while condition
PassEnd ==
    /\ pc = "visit"
    /\ i > Len(active_tasks)
    /\ pc' = "loop_head"
    /\ UNCHANGED <<retval, now, waitStart, stop_event, blockedAfterStop,
                   auth_url_event, stderr_thread, future, trace, w, acct, retry, sp, ts, rd, hp, cmd>>
    /\ UNCHANGED resVars
    /\ UNCHANGED pollVars

Truthy(r) == r \notin {"None", "False"}

FinalDiag_MainOnly ==
    IF Truthy(tasks["main"].result) THEN "none" ELSE "not_all"

FinalDiag_StatusOnly ==
    IF \E n \in NameSet : tasks[n].status # "done"
    THEN IF now >= deadline THEN "poll_timeout" ELSE "poll_unexpected"
    ELSE "none"

FinalDiag_NoDeadlineCheck ==
    IF \E n \in NameSet : tasks[n].status # "done"
    THEN IF tasks["main"].status = "done" /\ Truthy(tasks["main"].result)
         THEN (IF \E n \in NameSet : ~Truthy(tasks[n].result) THEN "not_all" ELSE "none")
         ELSE "poll_unexpected"
    ELSE IF \E n \in NameSet : ~Truthy(tasks[n].result) THEN "not_all" ELSE "none"

\* 5. the final result check, then process.stdin.close()
FinalDiag ==
    IF \E n \in NameSet : tasks[n].status # "done"
    THEN IF now >= deadline THEN "poll_timeout"
         ELSE IF tasks["main"].status = "done" /\ Truthy(tasks["main"].result)
              THEN (IF \E n \in NameSet : ~Truthy(tasks[n].result) THEN "not_all" ELSE "none")
              ELSE "poll_unexpected"
    ELSE IF \E n \in NameSet : ~Truthy(tasks[n].result) THEN "not_all" ELSE "none"

FinalCheck ==
    /\ pc = "final_check"
    /\ IF FinalDiag = "none"
       THEN /\ pc' = "proc_wait"
            /\ trace' = Append(trace, "close_stdin")
            /\ waitStart' = now
            /\ UNCHANGED <<retval, diag, failed_tasks>>
       ELSE /\ Fail(FinalDiag)
            /\ failed_tasks' = IF FinalDiag = "not_all"
                               THEN {n \in NameSet : ~Truthy(tasks[n].result)}
                               ELSE failed_tasks
            /\ UNCHANGED <<trace, waitStart>>
    /\ UNCHANGED <<now, stop_event, blockedAfterStop, auth_url_event, stderr_thread,
                   future, w, acct, retry, sp, ts, rd, hp, cmd, tasks, active_tasks, windows, i>>
    /\ UNCHANGED resVars

\* process.wait(timeout=10), then the return code decides
ProcWait ==
    /\ pc = "proc_wait"
    /\ \/ /\ os["gcloud"] = "dead"
          /\ \E rc \in {"True", "False"} : retval' = rc
          /\ diag' = IF retval' = "True" THEN "none" ELSE "gcloud_exit"
       \/ /\ os["gcloud"] = "alive"
          /\ now >= waitStart + PROCESS_WAIT_TIMEOUT
          /\ retval' = "False"
          /\ diag' = "proc_wait_timeout"
    /\ pc' = "finally"
    /\ UNCHANGED <<now, waitStart, stop_event, blockedAfterStop, auth_url_event,
                   stderr_thread, future, trace, w, acct, retry, sp, ts, rd, hp, cmd, tasks, active_tasks, windows, i,
                   failed_tasks>>
    /\ UNCHANGED resVars

\* ------------------------------------------------------------ process_account
\* The last line of the log that carries the error mark on the path of
\* perform_login_automation that ended with diagnostic d; "none" when that path
\* writes no such line.
ErrorLines(d) ==
    CASE d = "url_timeout" -> {"none"}              \* lines 251-255: info, warning
      [] d = "driver_failed" -> {"driver_error"}    \* line 283
      [] d = "step_failed" -> {"step_failed"}       \* line 127
      [] d = "verification" -> {"verification"}     \* line 353
      [] d = "verification_timeout" -> {"no_known_page"}   \* line 358
      [] d \in {"timeout", "page_timeout"} -> {"automation_timeout"}   \* line 614
      [] d = "interrupted" -> {"interrupted"}       \* line 611
      [] d \in {"poll_exception", "poll_timeout", "poll_unexpected", "not_all"}
             -> {"poll_error"}                      \* line 573
      [] d = "gcloud_exit" -> {"gcloud_failed", "none"}    \* line 596, line 598
      [] d \in {"error", "proc_wait_timeout"} -> {"unknown_error"}   \* line 616
      [] OTHER -> {"none"}

\* result["reason"] = first_error if first_error else the fallback sentence
LoginReasons(d) == { IF l = "none" THEN "fallback_login" ELSE l : l \in ErrorLines(d) }

\* the locals of perform_login_automation and the record of its events
loginLocals == <<waitStart, auth_url_event, process, driver, stderr_thread, future,
                 tasks, active_tasks, windows, i, trace, failed_tasks>>

acctRest == <<retval, now, stop_event, blockedAfterStop, os, stderrAlive,
              killIssued, cleanupCalls, lateEffects, diag, w, retry, sp, ts, rd, hp, cmd>>

AcctEnd(status, reason, errors) ==
    [acct EXCEPT !.pc = "finally", !.status = status, !.reason = reason,
                 !.has_errors = @ \/ errors]

\* login_success = perform_login_automation(...) has returned or raised; the
\* stop check and the login-failure result. The frame of
\* perform_login_automation is gone with its locals.
AcctLoginReturn ==
    /\ pc = "returned"
    /\ acct.pc = "login"
    /\ pc' = "account"
    /\ \E reason \in LoginReasons(diag) :
          acct' = CASE retval = "VRE" ->       \* except Exception as e (line 541)
                          AcctEnd("failure", "top_level_exception", TRUE)
                    [] retval # "VRE" /\ stop_event ->
                          AcctEnd("pending", "interrupted_by_user", FALSE)
                    [] retval = "False" /\ ~stop_event ->
                          AcctEnd("login_failed", reason, TRUE)
                    [] OTHER -> [acct EXCEPT !.pc = "projects"]
    /\ waitStart' = 0
    /\ auth_url_event' = FALSE
    /\ process' = "None"
    /\ driver' = "None"
    /\ stderr_thread' = "None"
    /\ future' = "none"
    /\ tasks' = InitTasks
    /\ active_tasks' = <<>>
    /\ windows' = {}
    /\ i' = 0
    /\ trace' = <<>>
    /\ failed_tasks' = {}
    /\ UNCHANGED acctRest

\* load the credentials, the second stop check, the list of existing projects
AcctListProjects ==
    /\ pc = "account"
    /\ acct.pc = "projects"
    /\ \E out \in {"credentials_raise", "list_raises", "ok"} :
          acct' = IF out = "credentials_raise"
                  THEN AcctEnd("failure", "top_level_exception", TRUE)
                  ELSE IF stop_event
                  THEN AcctEnd("pending", "interrupted_by_user", FALSE)
                  ELSE IF out = "list_raises"
                  THEN AcctEnd("failure", "project_list_exception", TRUE)
                  ELSE [acct EXCEPT !.pc = "collect"]
    /\ UNCHANGED loginLocals
    /\ UNCHANGED <<pc, acctRest>>

\* handle_existing_projects / handle_new_projects add keys to result["keys"]
\* and may log error lines; anything they raise reaches the top-level except
AcctCollect ==
    /\ pc = "account"
    /\ acct.pc = "collect"
    /\ \E k \in 0..MaxKeys, errors \in BOOLEAN, raises \in BOOLEAN :
          LET got == [acct EXCEPT !.keys = k, !.has_errors = errors]
          IN acct' = IF raises
                     THEN [got EXCEPT !.pc = "finally", !.status = "failure",
                                      !.reason = "top_level_exception",
                                      !.has_errors = TRUE]
                     ELSE [got EXCEPT !.pc = "final"]
    /\ UNCHANGED loginLocals
    /\ UNCHANGED <<pc, acctRest>>

\* step 5: status and reason from key_count and has_errors
FinalStatus_IgnoresKeys(key_count, has_errors) ==
    IF has_errors
    THEN [status |-> IF key_count > 0 THEN "partial" ELSE "failure",
          reason |-> "last_error_line"]
    ELSE [status |-> "success", reason |-> ""]

FinalStatus(key_count, has_errors) ==
    IF key_count > 0
    THEN IF has_errors
         THEN [status |-> "partial", reason |-> "last_error_line"]
         ELSE [status |-> "success", reason |-> ""]
    ELSE [status |-> "failure",
          reason |-> IF has_errors THEN "last_error_line" ELSE "fallback_no_keys"]

AcctFinalStatus ==
    /\ pc = "account"
    /\ acct.pc = "final"
    /\ acct' = [acct EXCEPT !.pc = "finally",
                            !.status = FinalStatus(acct.keys, acct.has_errors).status,
                            !.reason = FinalStatus(acct.keys, acct.has_errors).reason]
    /\ UNCHANGED loginLocals
    /\ UNCHANGED <<pc, acctRest>>

\* finally: the result of an interrupted run; return result
AcctFinally ==
    /\ pc = "account"
    /\ acct.pc = "finally"
    /\ acct' = IF stop_event /\ acct.keys = 0
               THEN [acct EXCEPT !.pc = "done", !.status = "pending",
                                 !.reason = "interrupted_by_user"]
               ELSE IF stop_event
               THEN [acct EXCEPT !.pc = "done", !.status = "partial",
                                 !.reason = "interrupted_by_user"]
               ELSE [acct EXCEPT !.pc = "done"]
    /\ UNCHANGED loginLocals
    /\ UNCHANGED <<pc, acctRest>>


Next ==
    \/ Tick \/ SetStop \/ StderrEmitUrl \/ ProcExit \/ CreateDriverOk \/ CreateDriverFail
    \/ Launch \/ UrlWaitOk \/ UrlWaitTimeout \/ UrlFailCleanup \/ DriverReady
    \/ DriverFailCleanup \/ ExecutorShutdown \/ PrefixEmail \/ PageCheck \/ PasswordStep
    \/ OpenWindows \/ LoopHead \/ Visit \/ PassEnd \/ FinalCheck \/ ProcWait
    \/ Finally
    \/ AcctLoginReturn \/ AcctListProjects \/ AcctCollect \/ AcctFinalStatus
    \/ AcctFinally

Spec == Init /\ [][Next]_vars


\* ------------------------------------- wait_and_check_stop, blocking mode
\* Time is counted in polls here: one WebDriverWait(driver, 0.2) that finds
\* nothing lasts one unit. The record w holds the call's locals and what was
\* observed of it: stopAt (when the signal was set), pollsAfterStop (polls
\* started after the signal), late (the running poll started after the signal).
mainVars == <<pc, retval, now, waitStart, stop_event, blockedAfterStop,
              auth_url_event, process, driver, stderr_thread, future, os,
              stderrAlive, killIssued, cleanupCalls, lateEffects, tasks,
              active_tasks, windows, i, trace, diag, failed_tasks, acct, retry, sp, ts, rd, hp, cmd>>

\* a call with timeout t: end_time = time.time() + timeout
InitWait ==
    /\ Init!1 /\ Init!2 /\ Init!3 /\ Init!4 /\ Init!5 /\ Init!6 /\ Init!7 /\ Init!8
    /\ Init!9 /\ Init!10 /\ Init!11 /\ Init!12 /\ Init!13 /\ Init!14 /\ Init!15
    /\ Init!16 /\ Init!17 /\ Init!18 /\ Init!19 /\ Init!20 /\ Init!21 /\ Init!22
    /\ Init!24 /\ Init!25 /\ Init!26 /\ Init!27 /\ Init!28 /\ Init!29 /\ Init!30 /\ Init!31
    /\ \E t \in 1..MaxPolls : w = [WaitIdle EXCEPT !.pc = "top", !.end_time = t]

WEnd(out) == [w EXCEPT !.pc = "done", !.outcome = out]

\* while time.time() < end_time: if stop_event.is_set(): raise InterruptedError
WCheck_NoStopCheck ==
    /\ w.pc = "top"
    /\ w' = IF w.now >= w.end_time THEN WEnd("TimeoutError")
            ELSE [w EXCEPT !.pc = "checked"]
    /\ UNCHANGED mainVars

WCheck ==
    /\ w.pc = "top"
    /\ w' = IF w.now >= w.end_time THEN WEnd("TimeoutError")
            ELSE IF w.stop THEN WEnd("InterruptedError")
            ELSE [w EXCEPT !.pc = "checked"]
    /\ UNCHANGED mainVars

\* WebDriverWait(driver, 0.2).until(condition) starts
WPollStart ==
    /\ w.pc = "checked"
    /\ w' = [w EXCEPT !.pc = "polling", !.late = w.stop,
                      !.pollsAfterStop = IF w.stop THEN @ + 1 ELSE @]
    /\ UNCHANGED mainVars

\* the poll finds the element: return element
WPollFound ==
    /\ w.pc = "polling"
    /\ w' = WEnd("element")
    /\ UNCHANGED mainVars

\* the poll raises TimeoutException after its 0.2 s: continue
WPollTimeout ==
    /\ w.pc = "polling"
    /\ w' = [w EXCEPT !.pc = "top", !.now = @ + 1, !.late = FALSE]
    /\ UNCHANGED mainVars

\* the cancellation signal is set while the wait is blocked
WSetStop ==
    /\ w.pc \in {"top", "checked", "polling"}
    /\ ~w.stop
    /\ w' = [w EXCEPT !.stop = TRUE, !.stopAt = w.now]
    /\ UNCHANGED mainVars

NextWait == WCheck \/ WPollStart \/ WPollFound \/ WPollTimeout \/ WSetStop

SpecWait == InitWait /\ [][NextWait]_vars


\* ---------------------------------------------------- robust_retry.wrapper
\* One call of a function decorated with robust_retry(max_retries, delay=2,
\* backoff=2). The record retry holds the wrapper's locals and what was observed
\* of the call: calls (invocations of the wrapped function), delays (retry waits
\* begun), last (what the latest invocation raised), by (who raised the outcome).
RETRY_DELAY == 2
RETRY_BACKOFF == 2

UNRECOVERABLE_EXCEPTIONS ==
    {"VerificationRequiredException", "PermissionDenied", "NotFound",
     "AlreadyExists", "InvalidArgument", "FailedPrecondition",
     "NotImplementedError", "TypeError", "InterruptedError"}

\* exceptions of the wrapped function that are not in the blacklist
RecoverableExceptions == {"ServiceUnavailable", "TimeoutError"}

retryRest == <<pc, retval, now, waitStart, stop_event, blockedAfterStop,
               auth_url_event, process, driver, stderr_thread, future, os,
               stderrAlive, killIssued, cleanupCalls, lateEffects, tasks,
               active_tasks, windows, i, trace, diag, failed_tasks, w, acct, sp, ts, rd, hp, cmd>>

InitRetry ==
    /\ Init!1 /\ Init!2 /\ Init!3 /\ Init!4 /\ Init!5 /\ Init!6 /\ Init!7 /\ Init!8
    /\ Init!9 /\ Init!10 /\ Init!11 /\ Init!12 /\ Init!13 /\ Init!14 /\ Init!15
    /\ Init!16 /\ Init!17 /\ Init!18 /\ Init!19 /\ Init!20 /\ Init!21 /\ Init!22
    /\ Init!23 /\ Init!24 /\ Init!26 /\ Init!27 /\ Init!28 /\ Init!29 /\ Init!30 /\ Init!31
    /\ \E m \in 1..MaxRetries, soe \in BOOLEAN :
          retry = [RetryIdle EXCEPT !.pc = "top", !.max_retries = m,
                                    !.current_delay = RETRY_DELAY,
                                    !.success_on_existing = soe]

REnd(out, who) == [retry EXCEPT !.pc = "done", !.outcome = out, !.by = who]

\* isinstance(e, UNRECOVERABLE_EXCEPTIONS)
Unrecoverable_NoInterrupted(e) == e \in UNRECOVERABLE_EXCEPTIONS \ {"InterruptedError"}

Unrecoverable(e) == e \in UNRECOVERABLE_EXCEPTIONS

\* for attempt in range(max_retries): if stop_event.is_set(): raise InterruptedError
RTop ==
    /\ retry.pc = "top"
    /\ retry' = IF retry.attempt >= retry.max_retries THEN REnd("None", "none")
                ELSE IF retry.stop THEN REnd("InterruptedError", "wrapper")
                ELSE [retry EXCEPT !.pc = "call"]
    /\ UNCHANGED retryRest

\* existing_result = None (line 53); no statement of the wrapper assigns it again
existing_result_Stored(r) == IF r.calls > 0 THEN "result" ELSE "None"

existing_result(r) == "None"

\* what the try statement does with outcome e of func in the call described by
\* r: return result; or, in the except clause, return existing_result when
\* success_on_existing and existing_result, raise when e is blacklisted or on
\* the last attempt, else go on to the delay
try_call(r, e) ==
    LET called == [r EXCEPT !.calls = @ + 1,
                            !.last = IF e = "return" THEN "none" ELSE e]
    IN  IF e = "return"
        THEN [called EXCEPT !.pc = "done", !.outcome = "returned", !.by = "func"]
        ELSE IF r.success_on_existing /\ Truthy(existing_result(r))
        THEN [called EXCEPT !.pc = "done", !.outcome = "existing", !.by = "wrapper"]
        ELSE IF Unrecoverable(e) \/ r.attempt + 1 >= r.max_retries
        THEN [called EXCEPT !.pc = "done", !.outcome = e, !.by = "func"]
        ELSE [called EXCEPT !.pc = "delay", !.delays = @ + 1]

FuncOutcomes == {"return"} \cup UNRECOVERABLE_EXCEPTIONS \cup RecoverableExceptions

\* result = func(*args, **kwargs) and what follows it
RCall ==
    /\ retry.pc = "call"
    /\ \E e \in FuncOutcomes : retry' = try_call(retry, e)
    /\ UNCHANGED retryRest

DelayInterrupted_Never(stop_set) == FALSE

\* while time.time() < wait_end_time: if stop_event and stop_event.is_set(): raise
DelayInterrupted(stop_set) == stop_set

\* the interruptible wait of current_delay seconds, then current_delay *= backoff
RDelay ==
    /\ retry.pc = "delay"
    /\ retry' = IF DelayInterrupted(retry.stop) THEN REnd("InterruptedError", "wrapper")
                ELSE [retry EXCEPT !.pc = "top", !.attempt = @ + 1,
                                   !.current_delay = @ * RETRY_BACKOFF]
    /\ UNCHANGED retryRest

\* the stop event found in the arguments is set by another thread
RSetStop ==
    /\ retry.pc \in {"top", "call", "delay"}
    /\ ~retry.stop
    /\ retry' = [retry EXCEPT !.stop = TRUE]
    /\ UNCHANGED retryRest

NextRetry == RTop \/ RCall \/ RDelay \/ RSetStop

SpecRetry == InitRetry /\ [][NextRetry]_vars


\* ---------------------------------------------------------- start_processing
\* One call of start_processing(accounts, max_workers, gui_queue, stop_event)
\* with a result queue. The record sp holds: next (index of the submit loop),
\* futures (per account: "none" not yet reached by the loop, "skipped" not
\* submitted, "submitted", "running" in process_account, "finished"
\* process_account has returned, "collected" its result was put), processing and
\* terminal (per account: how many 'processing' and how many other results the
\* queue received), pending (accounts whose terminal result is the pending one).
startRest == <<pc, retval, now, waitStart, stop_event, blockedAfterStop,
               auth_url_event, process, driver, stderr_thread, future, os,
               stderrAlive, killIssued, cleanupCalls, lateEffects, tasks,
               active_tasks, windows, i, trace, diag, failed_tasks, w, acct, retry, ts, rd, hp, cmd>>

InitStart ==
    /\ Init!1 /\ Init!2 /\ Init!3 /\ Init!4 /\ Init!5 /\ Init!6 /\ Init!7 /\ Init!8
    /\ Init!9 /\ Init!10 /\ Init!11 /\ Init!12 /\ Init!13 /\ Init!14 /\ Init!15
    /\ Init!16 /\ Init!17 /\ Init!18 /\ Init!19 /\ Init!20 /\ Init!21 /\ Init!22
    /\ Init!23 /\ Init!24 /\ Init!25 /\ Init!27 /\ Init!28 /\ Init!29 /\ Init!30 /\ Init!31
    /\ \E n \in 0..MaxAccounts, m \in 1..MaxAccounts :
          sp = [StartIdle EXCEPT !.pc = "setup", !.max_workers = m,
                                 !.futures = [a \in 1..n |-> "none"],
                                 !.processing = [a \in 1..n |-> 0],
                                 !.terminal = [a \in 1..n |-> 0]]

Accounts == DOMAIN sp.futures

\* check_gcloud_installed (re-raises), if not accounts: return, the driver
\* patcher (except: return), the temporary directories (outer except)
SSetup ==
    /\ sp.pc = "setup"
    /\ \E out \in {"ok", "no_gcloud", "driver_failed", "mkdtemp_failed"} :
          sp' = IF out = "ok" /\ Accounts # {}
                THEN [sp EXCEPT !.pc = "submit", !.next = 1, !.dispatched = TRUE]
                ELSE [sp EXCEPT !.pc = "done"]
    /\ UNCHANGED startRest

\* one iteration of the submit loop for an account: with the signal set the
\* pending result is put and the account is not submitted (continue)
SubmitStep_NoContinue(stopped) ==
    IF stopped THEN [future |-> "submitted", put |-> 1]
    ELSE [future |-> "submitted", put |-> 0]

SubmitStep(stopped) ==
    IF stopped THEN [future |-> "skipped", put |-> 1]
    ELSE [future |-> "submitted", put |-> 0]

SSubmit ==
    /\ sp.pc = "submit"
    /\ LET a == sp.next
           st == SubmitStep(sp.stop)
       IN sp' = IF a \in Accounts
                THEN [sp EXCEPT !.next = a + 1,
                                !.futures[a] = st.future,
                                !.terminal[a] = @ + st.put,
                                !.pending = IF st.put > 0 THEN @ \cup {a} ELSE @]
                ELSE [sp EXCEPT !.pc = "collect"]
    /\ UNCHANGED startRest

\* a pool thread takes a submitted account: process_account puts 'processing'
SWorkerStart ==
    /\ \E a \in Accounts :
          /\ sp.futures[a] = "submitted"
          /\ Cardinality({b \in Accounts : sp.futures[b] = "running"}) < sp.max_workers
          /\ sp' = [sp EXCEPT !.futures[a] = "running", !.processing[a] = @ + 1]
    /\ UNCHANGED startRest

\* process_account returns its result dict (its status is never 'processing')
SWorkerReturn ==
    /\ \E a \in Accounts :
          /\ sp.futures[a] = "running"
          /\ sp' = [sp EXCEPT !.futures[a] = "finished"]
    /\ UNCHANGED startRest

\* as_completed yields a finished future: gui_queue.put(future.result())
SCollect ==
    /\ sp.pc = "collect"
    /\ \E a \in Accounts :
          /\ sp.futures[a] = "finished"
          /\ sp' = [sp EXCEPT !.futures[a] = "collected", !.terminal[a] = @ + 1]
    /\ UNCHANGED startRest

\* as_completed is exhausted; the executor is shut down; start_processing ends
SEnd ==
    /\ sp.pc = "collect"
    /\ \A a \in Accounts : sp.futures[a] \in {"skipped", "collected"}
    /\ sp' = [sp EXCEPT !.pc = "done"]
    /\ UNCHANGED startRest

\* the stop button: stop_event.set()
SSetStop ==
    /\ sp.pc \in {"setup", "submit", "collect"}
    /\ ~sp.stop
    /\ sp' = [sp EXCEPT !.stop = TRUE]
    /\ UNCHANGED startRest

NextStart ==
    SSetup \/ SSubmit \/ SWorkerStart \/ SWorkerReturn \/ SCollect \/ SEnd \/ SSetStop

SpecStart == InitStart /\ [][NextStart]_vars


\* ------------------------------------------------------------------ try_step
\* One call of try_step(action_function, expected_url_part, step_name,
\* max_retries). The record ts holds the loop's attempt and what was observed of
\* the call: calls (invocations of action_function), fails (location checks
\* that failed), backs (driver.back() calls), stopAtTop (the value of the signal
\* at the latest check at the top of the loop), matched, outcome ("True",
\* "False", or "raised" when the action or a driver command raises).
stepRest == <<pc, retval, now, waitStart, stop_event, blockedAfterStop,
              auth_url_event, process, driver, stderr_thread, future, os,
              stderrAlive, killIssued, cleanupCalls, lateEffects, tasks,
              active_tasks, windows, i, trace, diag, failed_tasks, w, acct, retry, sp, rd, hp, cmd>>

InitStep ==
    /\ Init!1 /\ Init!2 /\ Init!3 /\ Init!4 /\ Init!5 /\ Init!6 /\ Init!7 /\ Init!8
    /\ Init!9 /\ Init!10 /\ Init!11 /\ Init!12 /\ Init!13 /\ Init!14 /\ Init!15
    /\ Init!16 /\ Init!17 /\ Init!18 /\ Init!19 /\ Init!20 /\ Init!21 /\ Init!22
    /\ Init!23 /\ Init!24 /\ Init!25 /\ Init!26 /\ Init!28 /\ Init!29 /\ Init!30 /\ Init!31
    /\ \E m \in 0..MaxAttempts : ts = [StepIdle EXCEPT !.pc = "top", !.max_retries = m]

\* for attempt in range(max_retries): if stop_event.is_set(): return False;
\* after the loop: the error line, return False
StepTop_NoStopCheck(t) ==
    IF t.attempt >= t.max_retries THEN [pc |-> "done", outcome |-> "False"]
    ELSE [pc |-> "action", outcome |-> "none"]

StepTop(t) ==
    IF t.attempt >= t.max_retries THEN [pc |-> "done", outcome |-> "False"]
    ELSE IF t.stop THEN [pc |-> "done", outcome |-> "False"]
    ELSE [pc |-> "action", outcome |-> "none"]

TTop ==
    /\ ts.pc = "top"
    /\ ts' = [ts EXCEPT !.pc = StepTop(ts).pc, !.outcome = StepTop(ts).outcome,
                        !.stopAtTop = (ts.attempt < ts.max_retries /\ ts.stop)]
    /\ UNCHANGED stepRest

\* action_function(): returns, or raises (InterruptedError or TimeoutError of
\* its waits, an exception of the click)
TAction ==
    /\ ts.pc = "action"
    /\ \E raises \in BOOLEAN :
          ts' = IF raises
                THEN [ts EXCEPT !.calls = @ + 1, !.pc = "done", !.outcome = "raised"]
                ELSE [ts EXCEPT !.calls = @ + 1, !.pc = "url"]
    /\ UNCHANGED stepRest

\* current_url = driver.current_url; if expected_url_part in current_url: return True
TCheckUrl ==
    /\ ts.pc = "url"
    /\ \E out \in {"match", "mismatch", "raises"} :
          ts' = CASE out = "match" ->
                       [ts EXCEPT !.pc = "done", !.outcome = "True", !.matched = TRUE]
                  [] out = "mismatch" -> [ts EXCEPT !.pc = "back", !.fails = @ + 1]
                  [] OTHER -> [ts EXCEPT !.pc = "done", !.outcome = "raised"]
    /\ UNCHANGED stepRest

\* the warning lines, driver.back(), next attempt
TBack ==
    /\ ts.pc = "back"
    /\ \E raises \in BOOLEAN :
          ts' = IF raises
                THEN [ts EXCEPT !.pc = "done", !.outcome = "raised"]
                ELSE [ts EXCEPT !.pc = "top", !.backs = @ + 1, !.attempt = @ + 1]
    /\ UNCHANGED stepRest

\* stop_event is set by another thread
TSetStop ==
    /\ ts.pc \in {"top", "action", "url", "back"}
    /\ ~ts.stop
    /\ ts' = [ts EXCEPT !.stop = TRUE]
    /\ UNCHANGED stepRest

NextStep == TTop \/ TAction \/ TCheckUrl \/ TBack \/ TSetStop

SpecStep == InitStep /\ [][NextStep]_vars


\* ------------------------------------------------------ capture_gcloud_stderr
\* Text is a sequence of tokens. "SP" and "NL" are whitespace; "GO" is the text
\* 'Go to the following link'; "AUTH" is the text
\* 'https://accounts.google.com/o/oauth2/auth'; "HTTPS" is 'https://' followed by
\* another host; the other tokens are text that holds none of these.
Whitespace == {"SP", "NL"}

\* the lines gcloud may write to stderr
SampleLines ==
    { <<"GO", "NL">>,                 \* the prompt
      <<"NL">>,                       \* an empty line
      <<"SP", "AUTH", "a", "NL">>,    \* the URL, indented as gcloud prints it
      <<"AUTH", "b", "NL">>,          \* another URL with the same prefix
      <<"e", "NL">>,                  \* a line of an error message
      <<"HTTPS", "NL">>,              \* a line that is another link
      <<"e", "AUTH", "a", "NL">> }    \* the URL after other text

RECURSIVE LStrip(_)
LStrip(s) == IF s # <<>> /\ Head(s) \in Whitespace THEN LStrip(Tail(s)) ELSE s

RECURSIVE RStrip(_)
RStrip(s) ==
    IF s # <<>> /\ s[Len(s)] \in Whitespace THEN RStrip(SubSeq(s, 1, Len(s) - 1)) ELSE s

\* str.strip()
Strip(s) == RStrip(LStrip(s))

\* token in s, for the three texts looked for
Contains(s, tok) == \E k \in DOMAIN s : s[k] = tok

\* s.startswith("https://accounts.google.com/o/oauth2/auth")
StartsWithAuth(s) == s # <<>> /\ s[1] = "AUTH"

\* s.startswith("https://")
StartsWithHttps(s) == s # <<>> /\ s[1] \in {"AUTH", "HTTPS"}

RECURSIVE Join(_)
Join(ls) == IF ls = <<>> THEN <<>> ELSE Head(ls) \o Join(Tail(ls))

readerRest == <<pc, retval, now, waitStart, stop_event, blockedAfterStop,
                auth_url_event, process, driver, stderr_thread, future, os,
                stderrAlive, killIssued, cleanupCalls, lateEffects, tasks,
                active_tasks, windows, i, trace, diag, failed_tasks, w, acct, retry,
                sp, ts, hp, cmd>>

\* the thread is started on the pipe of a subprocess that will write `written`
InitReader ==
    /\ Init!1 /\ Init!2 /\ Init!3 /\ Init!4 /\ Init!5 /\ Init!6 /\ Init!7 /\ Init!8
    /\ Init!9 /\ Init!10 /\ Init!11 /\ Init!12 /\ Init!13 /\ Init!14 /\ Init!15
    /\ Init!16 /\ Init!17 /\ Init!18 /\ Init!19 /\ Init!20 /\ Init!21 /\ Init!22
    /\ Init!23 /\ Init!24 /\ Init!25 /\ Init!26 /\ Init!27 /\ Init!28 /\ Init!30 /\ Init!31
    /\ \E n \in 0..MaxLines : \E ls \in [1..n -> SampleLines] :
          rd = [RdIdle EXCEPT !.pc = "readline", !.pipe = ls, !.written = ls]

\* for line in iter(pipe.readline, ''): stderr_lines.append(line)
RdReadline ==
    /\ rd.pc = "readline"
    /\ rd' = IF rd.pipe = <<>>
             THEN [rd EXCEPT !.pc = "ended"]
             ELSE [rd EXCEPT !.pc = "check", !.cur = Head(rd.pipe),
                             !.pipe = Tail(rd.pipe),
                             !.stderr_lines = Append(rd.stderr_lines, Head(rd.pipe))]
    /\ UNCHANGED readerRest

\* except Exception: pass (readline raises, for instance on a closed pipe)
RdReadFails ==
    /\ rd.pc = "readline"
    /\ rd' = [rd EXCEPT !.pc = "ended"]
    /\ UNCHANGED readerRest

ShouldStore_NoEventCheck(event_set, stripped_line) == StartsWithAuth(stripped_line)

\* if not url_event.is_set() and stripped_line.startswith(...)
ShouldStore(event_set, stripped_line) == ~event_set /\ StartsWithAuth(stripped_line)

\* stripped_line = line.strip(); the test; url_container['url'] = stripped_line
RdCheck ==
    /\ rd.pc = "check"
    /\ rd' = IF ShouldStore(rd.url_event, Strip(rd.cur))
             THEN [rd EXCEPT !.pc = "set", !.url = Strip(rd.cur),
                             !.stores = rd.stores + 1]
             ELSE [rd EXCEPT !.pc = "readline"]
    /\ UNCHANGED readerRest

\* url_event.set()
RdSet ==
    /\ rd.pc = "set"
    /\ rd' = [rd EXCEPT !.pc = "readline", !.url_event = TRUE, !.sets = rd.sets + 1]
    /\ UNCHANGED readerRest

\* the caller: auth_url_event.wait(...) returned True, then
\* auth_url = auth_url_container['url'] + '&hl=en'
RdUseUrl ==
    /\ rd.pc # "idle"
    /\ rd.url_event
    /\ rd.auth_url = <<"unread">>
    /\ rd' = [rd EXCEPT !.auth_url = IF rd.url = <<>> THEN <<"KeyError">>
                                     ELSE rd.url \o <<"hl">>]
    /\ UNCHANGED readerRest

\* the loop over gcloud_stderr_lines, with initial_prompt_found as found
RECURSIVE error_lines_from(_, _)
error_lines_from(lines, found) ==
    IF lines = <<>> THEN <<>>
    ELSE LET line == Head(lines)
             f == found \/ Contains(line, "GO")
         IN  IF f /\ Contains(line, "AUTH") THEN error_lines_from(Tail(lines), f)
             ELSE IF f /\ ~StartsWithHttps(Strip(line))
                  THEN <<line>> \o error_lines_from(Tail(lines), f)
                  ELSE error_lines_from(Tail(lines), f)

\* if process.returncode != 0: stderr_thread.join(timeout=...), which may return
\* with the thread still reading; error_details = "".join(error_lines).strip()
RdFilter ==
    /\ rd.pc # "idle"
    /\ ~rd.filtered
    /\ rd' = [rd EXCEPT !.filtered = TRUE,
                        !.error_lines = error_lines_from(rd.stderr_lines, FALSE),
                        !.error_details =
                            Strip(Join(error_lines_from(rd.stderr_lines, FALSE)))]
    /\ UNCHANGED readerRest

NextReader == RdReadline \/ RdReadFails \/ RdCheck \/ RdSet \/ RdUseUrl \/ RdFilter

SpecReader == InitReader /\ [][NextReader]_vars


\* ------------------------------------------ the session's command timeout
\* One session from the moment driver_future.result returned it: the clamp, then
\* driver commands sent while the Task runs (every loop of the Task reads the
\* deadline between commands, never during one). A command either answers or is
\* ended by the connection's timeout.
commandRest == <<pc, retval, now, waitStart, stop_event, blockedAfterStop,
                 auth_url_event, process, driver, stderr_thread, future, os,
                 stderrAlive, killIssued, cleanupCalls, lateEffects, tasks,
                 active_tasks, windows, i, trace, diag, failed_tasks, w, acct, retry,
                 sp, ts, rd, hp>>

\* the session is ready at most GCLOUD_AUTH_URL_TIMEOUT + DRIVER_READY_TIMEOUT
\* after the deadline was computed
InitCommand ==
    /\ Init!1 /\ Init!2 /\ Init!3 /\ Init!4 /\ Init!5 /\ Init!6 /\ Init!7 /\ Init!8
    /\ Init!9 /\ Init!10 /\ Init!11 /\ Init!12 /\ Init!13 /\ Init!14 /\ Init!15
    /\ Init!16 /\ Init!17 /\ Init!18 /\ Init!19 /\ Init!20 /\ Init!21 /\ Init!22
    /\ Init!23 /\ Init!24 /\ Init!25 /\ Init!26 /\ Init!27 /\ Init!28 /\ Init!29
    /\ Init!30
    /\ \E t \in 0..(GCLOUD_AUTH_URL_TIMEOUT + DRIVER_READY_TIMEOUT), c \in BOOLEAN :
          /\ t % CommandTick = 0
          /\ cmd = [CmdIdle EXCEPT !.pc = "created", !.now = t, !.has_conn = c,
                                   !.timeout = MaxCommandWait]

\* if hasattr(driver, 'command_executor') and hasattr(..., '_conn'):
\*     driver.command_executor._conn.timeout = WEBDRIVER_COMMAND_TIMEOUT
CmdClamp ==
    /\ cmd.pc = "created"
    /\ cmd' = [cmd EXCEPT !.pc = "run",
                          !.timeout = IF cmd.has_conn THEN WEBDRIVER_COMMAND_TIMEOUT
                                      ELSE cmd.timeout]
    /\ UNCHANGED commandRest

\* a driver command is sent: the Task is before its deadline (while
\* time.time() < deadline) and blocks in the command
CmdSend ==
    /\ cmd.pc = "run"
    /\ cmd.now < deadline
    /\ cmd' = [cmd EXCEPT !.pc = "sent", !.sent_at = cmd.now]
    /\ UNCHANGED commandRest

\* the browser answers
CmdAnswer ==
    /\ cmd.pc = "sent"
    /\ cmd.now < cmd.sent_at + cmd.timeout
    /\ cmd' = [cmd EXCEPT !.pc = "run"]
    /\ UNCHANGED commandRest

\* the browser does not answer: the connection's timeout ends the command
CmdExpire ==
    /\ cmd.pc = "sent"
    /\ cmd.now >= cmd.sent_at + cmd.timeout
    /\ cmd' = [cmd EXCEPT !.pc = "run", !.expired = TRUE]
    /\ UNCHANGED commandRest

CmdTick ==
    /\ \/ cmd.pc = "run" /\ cmd.now < deadline
       \/ cmd.pc = "sent" /\ cmd.now < cmd.sent_at + cmd.timeout
    /\ cmd' = [cmd EXCEPT !.now = cmd.now + CommandTick]
    /\ UNCHANGED commandRest

\* the Task reads the clock at or after the deadline and ends
CmdDeadline ==
    /\ cmd.pc = "run"
    /\ cmd.now >= deadline
    /\ cmd' = [cmd EXCEPT !.pc = "ended"]
    /\ UNCHANGED commandRest

NextCommand == CmdClamp \/ CmdSend \/ CmdAnswer \/ CmdExpire \/ CmdTick \/ CmdDeadline

SpecCommand == InitCommand /\ [][NextCommand]_vars


\* ------------------------------------------------------- handle_new_projects
\* The calling thread, the creator thread and the configurator threads. The
\* queue is its items ("p" a project id, "None" the shutdown item) and its
\* count of unfinished tasks: put adds one, task_done takes one off, join
\* returns when it is zero.
projectsRest == <<pc, retval, now, waitStart, stop_event, blockedAfterStop,
                  auth_url_event, process, driver, stderr_thread, future, os,
                  stderrAlive, killIssued, cleanupCalls, lateEffects, tasks,
                  active_tasks, windows, i, trace, diag, failed_tasks, w, acct, retry,
                  sp, ts, rd, cmd>>

\* process_account starts the call when projects_to_create > 0 or
\* desired_keys = 0, with projects_to_create = desired_keys - (existing projects)
InitProjects ==
    /\ Init!1 /\ Init!2 /\ Init!3 /\ Init!4 /\ Init!5 /\ Init!6 /\ Init!7 /\ Init!8
    /\ Init!9 /\ Init!10 /\ Init!11 /\ Init!12 /\ Init!13 /\ Init!14 /\ Init!15
    /\ Init!16 /\ Init!17 /\ Init!18 /\ Init!19 /\ Init!20 /\ Init!21 /\ Init!22
    /\ Init!23 /\ Init!24 /\ Init!25 /\ Init!26 /\ Init!27 /\ Init!28 /\ Init!29
    /\ Init!31
    /\ \E d \in 0..MaxProjects, c \in 0..MaxProjects :
          /\ IF d = 0 THEN c = 0 ELSE c \in 1..d
          /\ hp = [HpIdle EXCEPT !.pc = "start", !.desired_keys = d,
                                 !.projects_to_create = c]

\* (global_stop_event and global_stop_event.is_set()) or
\* (account_stop_event and account_stop_event.is_set())
HpStopped == hp.global_stop \/ hp.account_stop

\* creator_thread.start(); the configurator threads are started
HStart ==
    /\ hp.pc = "start"
    /\ hp' = [hp EXCEPT !.pc = "creator_join", !.creator = "run",
                        !.workers = [k \in 1..MaxConfigurators |-> "top"]]
    /\ UNCHANGED projectsRest

\* one turn of the loop of creator_task: the while condition, the planned
\* count, then create_project: created and put on the queue, AlreadyExists
\* (continue), or the quota or another error (break)
CreatorStep ==
    /\ hp.creator = "run"
    /\ \/ /\ HpStopped \/ (hp.projects_to_create > 0
                            /\ hp.created >= hp.projects_to_create)
          /\ hp' = [hp EXCEPT !.creator = "ended"]
       \/ /\ ~HpStopped
          /\ ~(hp.projects_to_create > 0 /\ hp.created >= hp.projects_to_create)
          /\ \E out \in {"created", "AlreadyExists", "break"} :
                /\ out = "created" => hp.created < MaxProjects
                /\ hp' = CASE out = "created" ->
                                [hp EXCEPT !.queue = Append(@, "p"),
                                           !.unfinished = @ + 1, !.created = @ + 1]
                           [] out = "AlreadyExists" -> hp
                           [] OTHER -> [hp EXCEPT !.creator = "ended"]
    /\ UNCHANGED projectsRest

\* configurator_worker: the while condition
WTop(k) ==
    /\ k \in DOMAIN hp.workers
    /\ hp.workers[k] = "top"
    /\ hp' = [hp EXCEPT !.workers[k] = IF HpStopped THEN "exited" ELSE "get"]
    /\ UNCHANGED projectsRest

\* project_id = queue.get(timeout=1): queue.Empty (continue), None (break), or
\* a project id
WGet(k) ==
    /\ k \in DOMAIN hp.workers
    /\ hp.workers[k] = "get"
    /\ hp' = IF hp.queue = <<>> THEN [hp EXCEPT !.workers[k] = "top"]
             ELSE [hp EXCEPT !.queue = Tail(@),
                             !.workers[k] = IF Head(hp.queue) = "None" THEN "exited"
                                            ELSE "got"]
    /\ UNCHANGED projectsRest

\* key = configure_project_and_get_key(...), which returns None on any error;
\* all_keys.add(key), the stop signal when the goal is reached; task_done()
WConfigure(k) ==
    /\ k \in DOMAIN hp.workers
    /\ hp.workers[k] = "got"
    /\ \E key \in BOOLEAN :
          LET n == IF key /\ hp.keys < MaxKeys THEN hp.keys + 1 ELSE hp.keys
          IN hp' = [hp EXCEPT !.workers[k] = "top",
                              !.keys = n,
                              !.account_stop = @ \/ (key /\ hp.desired_keys > 0
                                                       /\ n >= hp.desired_keys),
                              !.unfinished = @ - 1]
    /\ UNCHANGED projectsRest

\* creator_thread.join()
HCreatorJoin ==
    /\ hp.pc = "creator_join"
    /\ hp.creator = "ended"
    /\ hp' = [hp EXCEPT !.pc = "queue_join"]
    /\ UNCHANGED projectsRest

\* projects_to_configure_queue.join(); then one None per configurator thread
HQueueJoin ==
    /\ hp.pc = "queue_join"
    /\ hp.unfinished = 0
    /\ hp' = [hp EXCEPT !.pc = "join_workers",
                        !.queue = @ \o [k \in 1..MaxConfigurators |-> "None"],
                        !.unfinished = @ + MaxConfigurators]
    /\ UNCHANGED projectsRest

\* for t in configurator_threads: t.join(timeout=5), which returns after the
\* timeout when the thread has not ended
HJoinWorkers ==
    /\ hp.pc = "join_workers"
    /\ hp' = [hp EXCEPT !.pc = "returned"]
    /\ UNCHANGED projectsRest

\* another thread sets a stop signal: the global one, or the account's one
\* (handle_existing_projects on reaching the goal, process_account on stop)
HSetStop ==
    /\ hp.pc \notin {"idle", "returned"}
    /\ \/ ~hp.global_stop /\ hp' = [hp EXCEPT !.global_stop = TRUE]
       \/ ~hp.account_stop /\ hp' = [hp EXCEPT !.account_stop = TRUE]
    /\ UNCHANGED projectsRest

NextProjects ==
    \/ HStart \/ CreatorStep \/ HCreatorJoin \/ HQueueJoin \/ HJoinWorkers \/ HSetStop
    \/ \E k \in 1..MaxConfigurators : WTop(k) \/ WGet(k) \/ WConfigure(k)

\* every thread that can run does run; nothing obliges another thread to set
\* a stop signal
SpecProjects ==
    /\ InitProjects
    /\ [][NextProjects]_vars
    /\ WF_vars(HStart \/ HCreatorJoin \/ HQueueJoin \/ HJoinWorkers)
    /\ WF_vars(CreatorStep)
    /\ \A k \in 1..MaxConfigurators : WF_vars(WTop(k) \/ WGet(k) \/ WConfigure(k))


\* =================================================================== claims
Count(e) == Cardinality({k \in DOMAIN trace : trace[k] = e})
Occurs(e) == \E k \in DOMAIN trace : trace[k] = e
\* every occurrence of b in the trace has an a before it
Precedes(a, b) ==
    \A k \in DOMAIN trace : trace[k] = b => \E j \in 1..(k - 1) : trace[j] = a
AllDone == \A n \in NameSet : tasks[n].status = "done"
AllTruthy == \A n \in NameSet : Truthy(tasks[n].result)

\* C1 (as claimed): once one call of cleanup_resources has completed, a later
\* call kills nothing, changes no variable and performs no other action.
C1_LaterCallsDoNothing == lateEffects = {}

\* C1 (amended): a later call of cleanup_resources kills no browser, driver or
\* subprocess and changes no variable; all it can still do is join the stderr
\* reader once more when that thread is still alive.
C1_LaterCallsKillNothing == lateEffects \subseteq {"join"}

C1_Witness ==
    /\ cleanupCalls = 2
    /\ {"browser", "service", "gcloud"} \subseteq killIssued
    /\ pc = "returned"

\* C2: refresh_count never exceeds 2; a visit that times out with
\* refresh_count = 2 leaves the record done with result False and the count
\* unchanged, and while the loop runs a done record is no longer in the active
\* list (never visited or refreshed again).
C2_RefreshBound ==
    /\ \A n \in NameSet : tasks[n].refresh_count <= MAX_REFRESH
    /\ pc \in {"visit", "loop_head"} =>
          \A n \in NameSet : tasks[n].status = "done" =>
             \A k \in DOMAIN active_tasks : active_tasks[k] # n
    /\ (pc = "visit" /\ i <= Len(active_tasks)) =>
          \A o \in VisitOutcomes(active_tasks[i], tasks[active_tasks[i]]) :
             (o.raised = "timeout" /\ tasks[active_tasks[i]].refresh_count = MAX_REFRESH)
                => /\ o.task = Rec("done", "False", MAX_REFRESH)
                   /\ ~o.escape

C2_Witness ==
    /\ tasks["main"] = Rec("done", "False", MAX_REFRESH)
    /\ pc = "visit"

\* C3: the main window is closed only after the code has been read and stored
\* in the record's result, and the record is marked done only after the close.
C3_ReadCloseDone ==
    /\ Precedes("read_code", "close_main")
    /\ Occurs("close_main") => tasks["main"].result = CODE
    /\ \A k \in DOMAIN trace : \A j \in DOMAIN trace :
          (trace[k] = "done_main" /\ trace[j] = "close_main") => j < k

C3_Witness ==
    /\ Occurs("close_main")
    /\ tasks["main"].status = "done"
    /\ tasks["gen_lang"].status = "wait_accept"
    /\ tasks["universal"].status = "wait_accept_confirmation"

\* C4 (as claimed): within one Task the code is read from the main window at
\* most once and written to the subprocess's stdin at most once.
C4_CodeWrittenOnce == Count("read_code") <= 1 /\ Count("write_code") <= 1

\* C5 (as claimed): in every Task in which the code was captured, stdin has
\* been closed exactly once when the Task ends, after all records were done.
C5_StdinClosedExactlyOnce ==
    (pc = "returned" /\ Occurs("read_code")) =>
        (Count("close_stdin") = 1 /\ AllDone)

\* C5 (amended): stdin is closed at most once, only after the code was written
\* and all three records are done; it is closed exactly once in a Task that
\* passes the final result check, and not at all in a Task that fails earlier.
C5_StdinClosedAtMostOnce ==
    /\ Count("close_stdin") <= 1
    /\ Occurs("close_stdin") => (AllDone /\ Precedes("write_code", "close_stdin"))
    /\ pc = "proc_wait" => Count("close_stdin") = 1
    /\ (pc = "returned" /\ diag \notin {"none", "gcloud_exit", "proc_wait_timeout"})
          => ~Occurs("close_stdin")

C5_Witness ==
    /\ pc = "proc_wait"
    /\ Count("close_stdin") = 1
    /\ tasks["gen_lang"].result = "True"

\* C6: the poll phase is passed (stdin closed, wait for the subprocess) only
\* with all three records done and every result truthy; otherwise the Task
\* does not succeed; the 'not all succeeded' diagnostic names exactly the
\* records whose result is falsy.
C6_FinalCheck ==
    /\ (pc = "proc_wait" \/ Occurs("close_stdin")) => (AllDone /\ AllTruthy)
    /\ (pc = "returned" /\ ~(AllDone /\ AllTruthy)) => retval # "True"
    /\ (diag = "not_all" /\ pc \in {"finally", "returned"}) =>
          /\ failed_tasks = {n \in NameSet : ~Truthy(tasks[n].result)}
          /\ failed_tasks # {}
          /\ retval = "False"

C6_Witness ==
    /\ diag = "not_all"
    /\ failed_tasks = {"gen_lang"}
    /\ pc = "returned"

\* C7 (as claimed): when control returns to the caller, cleanup_resources has
\* run to completion and every process of the Task that is still alive has had
\* its kill issued.
C7_ReapedBeforeReturn ==
    pc = "returned" =>
        /\ cleanupCalls >= 1
        /\ trace[Len(trace)] = "cleanup"
        /\ \A p \in OsNames : os[p] = "alive" => p \in killIssued

\* C8 (as claimed): every browser and driver service that _create_driver
\* created has been killed by cleanup_resources when the function returns.
C8_CreatedBrowserKilled ==
    (pc = "returned" /\ future = "done") => {"browser", "service"} \subseteq killIssued

\* C10 (as claimed): the URL wait does not go on to its timeout once time has
\* passed in it with the cancellation signal set.
C10_UrlWaitInterruptible == ~(pc = "url_fail" /\ blockedAfterStop)

C11_WaitsEndByDeadline == pc \in WaitPcs => waitStart + WaitTimeout <= deadline

\* C12 (as claimed): once the cancellation signal is set the poll loop ends with
\* the interruption whatever the state of the visited record is: no visit made
\* with the signal set completes without an exception and passes on to the
\* next record (the only visits that go on are those whose driver command timed
\* out and was answered by a refresh).
C12_StopEndsLoop ==
    [][(pc = "visit" /\ stop_event /\ i <= Len(active_tasks) /\ i' = i + 1)
          => tasks'[active_tasks[i]].refresh_count
                 # tasks[active_tasks[i]].refresh_count]_vars

\* C13 (as claimed): when none of the three markers becomes visible within
\* PASSWORD_INPUT_VISIBILITY_TIMEOUT, perform_login_automation ends by raising
\* VerificationRequiredException to its caller.
C13_NoMarkerRaisesVerification == diag = "page_timeout" => retval = "VRE"

\* C14 (as claimed): when the wrapped function raises a blacklisted exception,
\* it has been invoked exactly once in that call of the wrapper, no retry delay
\* was waited, and the same exception propagates.
C14_InvokedExactlyOnce ==
    (retry.pc = "done" /\ retry.by = "func"
        /\ retry.last \in UNRECOVERABLE_EXCEPTIONS) =>
        /\ retry.calls = 1
        /\ retry.delays = 0
        /\ retry.outcome = retry.last

\* C14 (amended): the invocation that raises a blacklisted exception is the last
\* one of the call: no delay and no invocation follows it and the same exception
\* propagates; every invocation before it failed with a retryable exception and
\* was followed by one delay, so the function was invoked once, with no delay,
\* exactly when it is the first invocation that raises it.
C14_NoRetryAfterUnrecoverable ==
    retry.last \in UNRECOVERABLE_EXCEPTIONS =>
        /\ retry.pc = "done"
        /\ retry.by = "func"
        /\ retry.outcome = retry.last
        /\ retry.calls = retry.attempt + 1
        /\ retry.delays = retry.attempt
        /\ retry.attempt < retry.max_retries

C14_Witness ==
    /\ retry.pc = "done"
    /\ retry.last = "InterruptedError"
    /\ retry.by = "func"
    /\ retry.calls = 2
    /\ retry.max_retries = 3

\* C15 (as claimed): when a verification marker is found instead of the password
\* field, perform_login_automation raises at once (no record was visited, no
\* code read) and the result of process_account has the login_failed status.
C15_MarkerGivesLoginFailed ==
    /\ (pc \in {"finally", "returned"} /\ diag = "verification") =>
          /\ retval = "VRE"
          /\ active_tasks = <<>>
          /\ tasks = InitTasks
          /\ ~Occurs("read_code")
    /\ (acct.pc = "done" /\ diag = "verification" /\ ~stop_event) =>
          acct.status = "login_failed"

\* C16 (as claimed): when the authorization URL is not observed in time, the
\* result has status failure and a reason that identifies the capture timeout:
\* not the fallback sentence, and not a reason the result can carry when the
\* subprocess exits with a non-zero code.
C16_CaptureTimeoutReported ==
    (acct.pc = "done" /\ diag = "url_timeout" /\ ~stop_event) =>
        /\ acct.status = "failure"
        /\ acct.reason # "fallback_login"
        /\ acct.reason \notin LoginReasons("gcloud_exit")

C18_StopMeansInterrupted ==
    (acct.pc = "done" /\ stop_event) =>
        /\ acct.status = "pending"
        /\ acct.reason = "interrupted_by_user"

\* C19 (as claimed): the reason of a result that is neither a success nor an
\* interruption is the last error line of the log or one of the fixed fallback
\* sentences, never the text of an exception.
C19_ReasonFromLog ==
    (acct.pc = "done" /\ acct.status # "success"
        /\ acct.reason # "interrupted_by_user") =>
        acct.reason \in UNION { LoginReasons(d) : d \in
                                 {"url_timeout", "driver_failed", "step_failed",
                                  "verification", "verification_timeout", "timeout",
                                  "interrupted", "poll_exception", "gcloud_exit",
                                  "error"} }
                        \cup {"last_error_line", "fallback_no_keys"}

\* C20: a run whose login succeeded, that collected a key, logged no error line
\* and was not cancelled returns status success with the keys and an empty
\* reason; status success is returned with at least one key and an empty
\* reason only, after a successful login.
C20_SuccessResult ==
    /\ (acct.pc = "done" /\ retval = "True" /\ ~stop_event /\ acct.keys > 0
           /\ ~acct.has_errors) =>
          (acct.status = "success" /\ acct.reason = "")
    /\ acct.status = "success" =>
          /\ acct.keys > 0
          /\ acct.reason = ""
          /\ ~acct.has_errors
          /\ retval = "True"
          /\ acct.pc \in {"finally", "done"}

C20_Witness ==
    /\ acct.pc = "done"
    /\ acct.status = "success"
    /\ acct.keys = MaxKeys
    /\ ~stop_event

\* C21 (as claimed): when start_processing has ended, the result queue has
\* received exactly one terminal result for every account it was given.
C21_OneResultPerAccount ==
    /\ \A a \in Accounts : sp.terminal[a] <= 1
    /\ sp.pc = "done" => \A a \in Accounts : sp.terminal[a] = 1

\* C21 (amended): no account ever gets two terminal results; once
\* start_processing has reached its submit loop, every account has exactly one
\* when it ends: the pending result for an account the loop found the signal set
\* for (never submitted, never 'processing'), the dict returned by its
\* process_account otherwise ('processing' first); when start_processing ends
\* before the submit loop, no account gets any result.
C21_OneResultPerDispatchedAccount ==
    /\ \A a \in Accounts :
          /\ sp.terminal[a] <= 1
          /\ sp.processing[a] <= 1
          /\ sp.terminal[a] = 1 =>
                \/ a \in sp.pending /\ sp.futures[a] = "skipped" /\ sp.processing[a] = 0
                \/ a \notin sp.pending /\ sp.futures[a] = "collected"
                      /\ sp.processing[a] = 1
    /\ (sp.pc = "done" /\ sp.dispatched) => \A a \in Accounts : sp.terminal[a] = 1
    /\ (sp.pc = "done" /\ ~sp.dispatched) => \A a \in Accounts : sp.terminal[a] = 0

C21_Witness ==
    /\ sp.pc = "done"
    /\ Accounts = 1..MaxAccounts
    /\ sp.futures[1] = "collected"
    /\ sp.futures[MaxAccounts] = "skipped"
    /\ sp.terminal[1] = 1
    /\ sp.terminal[MaxAccounts] = 1

\* C22: try_step invokes the action at most max_retries times; it returns True
\* right after the first location check that succeeds (every earlier attempt
\* failed its check and was followed by one driver.back()); every failed check
\* is followed by one driver.back(); it returns False after max_retries failed
\* attempts, and returns False without invoking the action when it finds the
\* cancellation signal set at the top of an attempt.
C22_TryStep ==
    /\ ts.calls <= ts.max_retries
    /\ (ts.outcome # "none") <=> (ts.pc = "done")
    /\ ts.pc \in {"top", "action"} =>
          (ts.calls = ts.attempt /\ ts.fails = ts.attempt /\ ts.backs = ts.attempt)
    /\ ts.pc = "action" => ~ts.stopAtTop
    /\ ts.outcome = "True" =>
          /\ ts.matched
          /\ ts.calls = ts.attempt + 1
          /\ ts.fails = ts.attempt
          /\ ts.backs = ts.attempt
    /\ ts.matched => ts.outcome = "True"
    /\ ts.pc = "back" => (ts.fails = ts.backs + 1 /\ ts.calls = ts.fails)
    /\ (ts.outcome = "False" /\ ~ts.stopAtTop) =>
          /\ ts.calls = ts.max_retries
          /\ ts.fails = ts.max_retries
          /\ ts.backs = ts.max_retries
    /\ ts.stopAtTop =>
          /\ ts.outcome = "False"
          /\ ts.calls = ts.attempt
          /\ ts.backs = ts.fails
          /\ ts.calls < ts.max_retries

C22_Witness ==
    /\ ts.pc = "done"
    /\ ts.outcome = "False"
    /\ ts.stopAtTop
    /\ ts.calls = 2
    /\ ts.backs = 2
    /\ ts.max_retries = 3

\* C23: the code is written to the subprocess's stdin before stdin is closed
\* (no write follows the close), and the wait for the subprocess's exit starts,
\* and ends, only with stdin closed.
C23_WriteCloseWait ==
    /\ Precedes("write_code", "close_stdin")
    /\ \A k \in DOMAIN trace : \A j \in DOMAIN trace :
          (trace[k] = "write_code" /\ trace[j] = "close_stdin") => k < j
    /\ pc = "proc_wait" => (Occurs("close_stdin") /\ Occurs("write_code"))
    /\ (pc \in {"finally", "returned"} /\ diag \in {"none", "gcloud_exit", "proc_wait_timeout"})
          => (Occurs("close_stdin") /\ Occurs("write_code"))

C23_Witness ==
    /\ pc = "finally"
    /\ retval = "True"
    /\ Occurs("write_code")
    /\ Occurs("close_stdin")
    /\ os["gcloud"] = "dead"

\* C24: a pass starts at the head of the active list; a visit that goes on
\* leaves to be visited exactly the records that followed the visited one, in
\* their order, whether or not the visited record was removed, and changes no
\* other record; the pass ends only when no record is left to visit; a visit
\* makes at most one non-blocking probe. So every record active at the start
\* of a pass is visited exactly once in that pass, in list order.
C24_EachVisitedOnce ==
    [][/\ (pc = "loop_head" /\ pc' = "visit") => (i' = 1 /\ active_tasks' = active_tasks)
       /\ (pc = "visit" /\ pc' = "visit" /\ (i' # i \/ active_tasks' # active_tasks)) =>
             /\ i <= Len(active_tasks)
             /\ LET n == active_tasks[i] IN
                /\ SubSeq(active_tasks', i', Len(active_tasks'))
                      = SubSeq(active_tasks, i + 1, Len(active_tasks))
                /\ SubSeq(active_tasks', 1, i' - 1)
                      = SubSeq(active_tasks, 1, i - 1)
                           \o (IF tasks'[n].status = "done" THEN <<>> ELSE <<n>>)
                /\ \A m \in NameSet \ {n} : tasks'[m] = tasks[m]
                /\ \A onHost \in BOOLEAN : ProbesInVisit(n, tasks[n].status, onHost) <= 1
       /\ (pc = "visit" /\ pc' = "loop_head") =>
             (i > Len(active_tasks) /\ active_tasks' = active_tasks)]_vars

\* a record was removed in a pass and the record that followed it is the next
\* to be visited
C24_Witness ==
    /\ pc = "visit"
    /\ i = 1
    /\ active_tasks = <<"gen_lang", "universal">>
    /\ tasks["main"] = Rec("done", CODE, 0)
    /\ tasks["gen_lang"] = Rec("wait_accept", "False", 0)
    /\ tasks["universal"] = Rec("wait_accept", "False", 0)

\* the changes of the main-flow record's state that the claim lists
MainForward ==
    {<<"wait_continue", "wait_allow">>, <<"wait_allow", "wait_code">>,
     <<"wait_code", "done">>, <<"unknown", "wait_allow">>,
     <<"unknown", "wait_continue">>}
       \cup { <<a, "unknown">> : a \in {"wait_continue", "wait_allow", "wait_code"} }

\* C25 (as claimed): the main-flow record's state changes only along the listed
\* transitions, done is entered from wait_continue, wait_allow or wait_code
\* only, never from unknown, and done is never left.
C25_NeverDoneFromUnknown ==
    [][(pc = "visit" /\ tasks'["main"].status # tasks["main"].status) =>
          \/ <<tasks["main"].status, tasks'["main"].status>> \in MainForward
          \/ /\ tasks["main"].status \in {"wait_continue", "wait_allow", "wait_code"}
             /\ tasks'["main"].status = "done"]_vars

\* C25 (amended): the state changes only in the record's own visit and only
\* along the listed transitions, where done can be entered from every state
\* other than done, unknown included; done is never left; wait_code is entered
\* from wait_allow only; a change to done from a state other than wait_code
\* reads no code (the result stays as it was or becomes False).
C25_MainTransitions ==
    [][(pc = "visit" /\ tasks'["main"].status # tasks["main"].status) =>
          /\ i <= Len(active_tasks)
          /\ active_tasks[i] = "main"
          /\ tasks["main"].status # "done"
          /\ \/ <<tasks["main"].status, tasks'["main"].status>> \in MainForward
             \/ tasks'["main"].status = "done"
          /\ (tasks'["main"].status = "done" /\ tasks["main"].status # "wait_code") =>
                tasks'["main"].result \in {tasks["main"].result, "False"}]_vars

\* the record is in unknown after a refresh and the pass has gone on to the next
\* record
C25_Witness ==
    /\ pc = "visit"
    /\ i = 2
    /\ tasks["main"] = Rec("unknown", "None", 1)
    /\ active_tasks = Names

\* C26 (as claimed): a visit of the main-flow record that completes without an
\* exception either advances the record (the probe of its state found its
\* marker) or leaves it in unknown: a probe that finds nothing on an expected
\* host makes the record fall back to unknown.
C26_MissFallsBackToUnknown ==
    [][(/\ pc = "visit" /\ pc' = "visit"
        /\ i <= Len(active_tasks)
        /\ active_tasks[i] = "main"
        /\ i' = i + 1
        /\ tasks'["main"].refresh_count = tasks["main"].refresh_count)
          => \/ tasks'["main"].status # tasks["main"].status
             \/ tasks'["main"].status = "unknown"]_vars

\* C27: in unknown, for every combination of the three markers being visible,
\* the composite probe leaves the record in wait_allow if the allow marker is
\* visible, else in wait_continue if the continue marker is visible, else
\* clicks the account chooser and leaves it in wait_continue if the chooser is
\* visible, else leaves it in unknown; these are the outcomes of the visit.
C27_CompositeProbePriority ==
    (/\ pc = "visit"
     /\ i <= Len(active_tasks)
     /\ active_tasks[i] = "main"
     /\ tasks["main"].status = "unknown"
     /\ ~stop_event) =>
        \A vis \in SUBSET ProbeMarkers :
           /\ CompositeProbe(vis) =
                 IF "allow" \in vis THEN [status |-> "wait_allow", click |-> FALSE]
                 ELSE IF "continue" \in vis
                      THEN [status |-> "wait_continue", click |-> FALSE]
                 ELSE IF "chooser" \in vis
                      THEN [status |-> "wait_continue", click |-> TRUE]
                 ELSE [status |-> "unknown", click |-> FALSE]
           /\ Body(CompositeProbe(vis).status, tasks["main"].result, <<>>, "none")
                 \in MainBody(tasks["main"])

\* the record was in wait_code with the code read, went to unknown, and the
\* composite probe has put it in wait_allow
C27_Witness ==
    /\ pc = "visit"
    /\ tasks["main"].status = "wait_allow"
    /\ tasks["main"].result = CODE
    /\ ~stop_event

AuxNames == {"gen_lang", "universal"}

CountIn(t, e) == Cardinality({k \in DOMAIN t : t[k] = e})

\* C30 (as claimed): in the visit in which the code is read, with the
\* subprocess alive, the code is also written to its stdin and the main window
\* is closed, whatever the states of the consent records are.
C30_ReadWriteCloseInOneVisit ==
    [][(/\ pc = "visit"
        /\ os["gcloud"] = "alive"
        /\ CountIn(trace', "read_code") > CountIn(trace, "read_code")) =>
          /\ CountIn(trace', "write_code") = CountIn(trace, "write_code") + 1
          /\ "main" \notin windows'
          /\ tasks'["main"].status = "done"]_vars

\* the stripped text of the first of the lines that, stripped, starts with the
\* authorization-URL prefix; <<>> when there is none
RECURSIVE FirstAuth(_)
FirstAuth(lines) ==
    IF lines = <<>> THEN <<>>
    ELSE IF StartsWithAuth(Strip(Head(lines))) THEN Strip(Head(lines))
         ELSE FirstAuth(Tail(lines))

\* C31: for every sequence of stderr lines, the URL event is set at most once;
\* the container is written at most once and holds the (stripped) first line
\* that starts with the authorization-URL prefix; the container is written
\* before the event is set, so the caller that saw the event finds that URL;
\* the lines read are retained in arrival order.
C31_StderrReader ==
    /\ rd.sets <= 1
    /\ rd.stores <= 1
    /\ rd.url # <<>> => rd.url = FirstAuth(rd.stderr_lines)
    /\ rd.pc \in {"readline", "ended"} =>
          /\ rd.url = FirstAuth(rd.stderr_lines)
          /\ rd.url_event = (rd.url # <<>>)
    /\ rd.url_event => rd.url # <<>>
    /\ rd.auth_url # <<"unread">> =>
          rd.auth_url = FirstAuth(rd.stderr_lines) \o <<"hl">>
    /\ rd.stderr_lines \o rd.pipe = rd.written
    /\ \A k \in DOMAIN rd.stderr_lines : rd.stderr_lines[k] = rd.written[k]

\* C31 witness: the prompt and two lines with the prefix were read, the first
\* of them indented; the caller got the first one, stripped.
C31_Witness ==
    /\ rd.pc = "ended"
    /\ rd.stderr_lines = << <<"GO", "NL">>, <<"SP", "AUTH", "a", "NL">>,
                            <<"AUTH", "b", "NL">> >>
    /\ rd.sets = 1
    /\ rd.auth_url = <<"AUTH", "a", "hl">>

\* the lines after the first line that holds the prompt
RECURSIVE AfterPrompt(_)
AfterPrompt(lines) ==
    IF lines = <<>> THEN <<>>
    ELSE IF Contains(Head(lines), "GO") THEN Tail(lines)
         ELSE AfterPrompt(Tail(lines))

\* C32 (as claimed): when the retained lines hold the prompt, the diagnostic is
\* made of the lines after the prompt line, without the lines that hold the
\* authorization URL, in their order: no line before the prompt, not the
\* prompt line, no URL line, every remaining line.
C32_DiagnosticDropsBoilerplate ==
    (rd.filtered /\ \E k \in DOMAIN rd.stderr_lines : Contains(rd.stderr_lines[k], "GO")) =>
        rd.error_lines =
            SelectSeq(AfterPrompt(rd.stderr_lines), LAMBDA l : ~Contains(l, "AUTH"))

\* the timeouts passed to explicit element waits
ElementWaitTimeouts ==
    {ELEMENT_VISIBILITY_TIMEOUT, ELEMENT_CLICKABLE_TIMEOUT,
     PASSWORD_INPUT_VISIBILITY_TIMEOUT}

\* C33 (as claimed): once the clamp has run on a session that has the
\* connection, the command timeout is WEBDRIVER_COMMAND_TIMEOUT, strictly below
\* TOTAL_TIMEOUT and above every element-wait timeout, and no driver command,
\* whenever it was sent, is still blocking the Task after the deadline.
C33_CommandTimeoutBoundsTask ==
    (cmd.pc \in {"run", "sent", "ended"} /\ cmd.has_conn) =>
        /\ cmd.timeout = WEBDRIVER_COMMAND_TIMEOUT
        /\ cmd.timeout < TOTAL_TIMEOUT
        /\ \A t \in ElementWaitTimeouts : t < cmd.timeout
        /\ cmd.pc = "sent" => cmd.now <= deadline

\* C34: a call of the wrapper invokes the function at most max_retries times;
\* an exception of the function that ends the call is the one the last
\* invocation raised, and a retryable one ends the call only on invocation
\* number max_retries; an attempt is begun only when the check before it found
\* stop_event unset; with stop_event set, the check before an attempt and the
\* wait between attempts both end the call with InterruptedError raised by the
\* wrapper, without a further invocation.
C34_RetryBounded ==
    [][/\ retry'.calls <= retry'.max_retries
       /\ (retry.pc = "call" /\ retry'.pc = "done" /\ retry'.outcome # "returned") =>
             /\ retry'.outcome = retry'.last
             /\ retry'.last \in RecoverableExceptions =>
                    retry'.calls = retry'.max_retries
       /\ (retry.pc = "top" /\ retry'.pc = "call") => ~retry.stop
       /\ (retry.pc \in {"top", "delay"} /\ retry.stop) =>
             /\ retry'.pc = "done"
             /\ retry'.outcome = "InterruptedError"
             /\ retry'.by = "wrapper"
             /\ retry'.calls = retry.calls]_vars

\* C34 witness: the first invocation failed with a retryable exception, the
\* signal was set during the wait that followed, and the call ended there.
C34_Witness ==
    /\ retry.pc = "done"
    /\ retry.stop
    /\ retry.outcome = "InterruptedError"
    /\ retry.by = "wrapper"
    /\ retry.calls = 1
    /\ retry.delays = 1
    /\ retry.attempt = 0
    /\ retry.max_retries = 3

C35_ActiveListFixed ==
    [][(pc \in {"loop_head", "visit"}) =>
        (/\ DOMAIN tasks' = NameSet
         /\ Cardinality(NameSet) = 3
         /\ (pc' = "loop_head" \/ (pc' = "visit" /\ i' > Len(active_tasks'))) =>
               /\ {active_tasks'[k] : k \in DOMAIN active_tasks'} =
                      {n \in NameSet : tasks'[n].status # "done"}
               /\ \A j, k \in DOMAIN active_tasks' :
                      active_tasks'[j] = active_tasks'[k] => j = k
         /\ {active_tasks'[k] : k \in DOMAIN active_tasks'} \subseteq
                {active_tasks[k] : k \in DOMAIN active_tasks}
         /\ Len(active_tasks') <= Len(active_tasks)
         /\ \A n \in NameSet :
               (\A k \in DOMAIN active_tasks : active_tasks[k] # n) =>
                   tasks'[n] = tasks[n])]_vars

\* C35 witness: a pass begins with one record left in the active list, the
\* two others done and removed.
C35_Witness ==
    /\ pc = "loop_head"
    /\ now < deadline
    /\ active_tasks = <<"gen_lang">>
    /\ tasks["main"].status = "done"
    /\ tasks["universal"].status = "done"
    /\ tasks["gen_lang"].status = "wait_accept_confirmation"

C37_RefreshChangesCountOnly ==
    /\ [](pc = "visit" /\ i <= Len(active_tasks) =>
            LET t == tasks[active_tasks[i]]
            IN  \A o \in VisitOutcomes(active_tasks[i], t) :
                   (o.raised = "timeout" /\ o.task.refresh_count # t.refresh_count) =>
                       /\ o.task.refresh_count = t.refresh_count + 1
                       /\ ~o.escape
                       /\ ~o.lost
                       /\ \E b \in VisitBody(active_tasks[i], t) :
                             /\ b.raised = "timeout"
                             /\ b.ev = o.ev
                             /\ b.status = o.task.status
                             /\ b.result = o.task.result)
    /\ [][(pc = "visit" /\ i <= Len(active_tasks)) =>
            \A n \in NameSet : n # active_tasks[i] => tasks'[n] = tasks[n]]_vars

\* C37 witness: the universal record went to wait_accept_confirmation, timed
\* out there and was refreshed: it is still in that state, with its result and
\* its window, and the two other records are as they were created.
C37_Witness ==
    /\ pc = "visit"
    /\ tasks["universal"] = Rec("wait_accept_confirmation", "False", 1)
    /\ "universal" \in windows
    /\ tasks["main"] = Rec("wait_continue", "None", 0)
    /\ tasks["gen_lang"] = Rec("wait_accept", "False", 0)

C38_QueueJoinCompletes == (hp.creator = "ended") ~> (hp.pc = "returned")

====
